---- MODULE Spec2Model ----
(***************************************************************************)
(* Provisioning sessions of the Lark Base agents.                          *)
(*                                                                         *)
(* The main machine is EnhancedMCPAgent.create_enhanced_crm_system         *)
(* (src/enhanced-mcp-agent.py): one step per remote request, the response  *)
(* of the remote service being chosen nondeterministically.  The sibling   *)
(* sessions MCPToolAgent.create_crm_system (src/mcp-tool-agent.py) and     *)
(* YouTubeCRMIntegration.create_crm_tables                                 *)
(* (src/implement-crm-in-youtube-base.py) run in the same machine, chosen  *)
(* by the variable agent.                                                  *)
(*                                                                         *)
(* Spec runs the three sessions.  SpecTimed runs the session of            *)
(* EnhancedMCPAgent with the clock advancing between its steps, followed   *)
(* by calls of get_access_token and add_rollup_field by the owner of the   *)
(* agent.  SpecBatch runs one call of batch_add_records by the owner of a  *)
(* newly constructed agent.  SpecAgain runs the session of                 *)
(* EnhancedMCPAgent again on the same object after it has returned.        *)
(* SpecCodes runs one translation of a field type to its type code, by the *)
(* enum FieldType, by MCPToolAgent.convert_field_type or by                *)
(* TestGenesisAgent.get_field_type_code (src/test-genesis.py).             *)
(* SpecBridge runs calls of connect, disconnect and execute_tool on an     *)
(* MCPBridge (src/prompt-management/integrations/mcp_bridge.py) and        *)
(* SpecBridgeBatch one call of its batch_execute.  SpecPrompts runs        *)
(* generate_prompt and save_prompt on a PromptGenerator                    *)
(* (src/prompt-management/tools/prompt-generator.py).  SpecExaminer runs   *)
(* one call of LarkBaseExaminer.examine_base (src/examine_base.py).        *)
(*                                                                         *)
(* Conventions.  A Python value that may be None is a sequence: <<>> is    *)
(* None and <<v>> is the value v, so that `not x` is x = <<>>.  The table  *)
(* list, the relation list and the seed batches, which the source spells   *)
(* out as literals, are the data of a schema drawn in Init; the literals   *)
(* of the source are the schema SourceSchema.                              *)
(***************************************************************************)
EXTENDS Integers, Sequences, FiniteSets, TLC

VARIABLES
    agent,            \* which class runs: "enhanced", "tool", "youtube",
                      \* "genesis", "bridge", "prompts" or "examiner"
    schema,           \* table configs, relations and seed batches of the run
    pc,               \* position in the session method
    idx,              \* index of the loop the session is in
    off,              \* batch_add_records: offset i of the next chunk
    total_added,      \* batch_add_records: total_added
    now,              \* datetime.now(), in seconds
    ticks,            \* how often the clock has advanced
    access_token,     \* self.access_token
    token_expires_at, \* self.token_expires_at
    app_token,        \* local app_token of the session
    created_tables,   \* self.created_tables: name -> table id
    creation_results, \* local creation_results / tables_created
    health_status,    \* local health_status of the session
    result,           \* the returned dict
    api_calls,        \* calls made on the agent after its first session
    call,             \* the running or last of these calls: what it was given,
                      \* what it posted and logged, and what it returned
    reqs,             \* the remote requests issued so far, in order
    errlog,           \* the logger.error / error print lines so far
    client,           \* MCPBridge.client
    results,          \* MCPBridge.batch_execute: local results
    index,            \* PromptGenerator.index["prompts"]
    generated         \* the prompts generate_prompt has returned and its
                      \* caller has not saved yet

vars == <<agent, schema, pc, idx, off, total_added, now, ticks, access_token,
          token_expires_at, app_token, created_tables, creation_results,
          health_status, result, api_calls, call, reqs, errlog, client,
          results, index, generated>>

\* The state of the classes of src/prompt-management
promptMgmt == <<client, results, index, generated>>

----------------------------------------------------------------------------
(* Bounds of the model *)

MaxTicks == 2
TickSeconds == 3450
MaxApiCalls == 1
MaxRecords == 250
MaxBridgeCalls == 3
MaxBatch == 3
MaxPrompts == 3
MaxExamined == 2

(* Program constants *)

MinTables == 3
MarginSeconds == 300
DefaultExpire == 7200
BatchSize == 100

None == <<>>
Some(v) == <<v>>
Val(o) == o[1]

Range(f) == {f[i] : i \in DOMAIN f}

----------------------------------------------------------------------------
(* Schemas *)

Rel(s, f, t) == [source_table |-> s, field_name |-> f, target_table |-> t]
Seed(t, n) == [table |-> t, n |-> n]

SourceTables ==
    << "Products", "Customers", "Membership_Tiers",
       "Subscriptions_Sales", "Bundle_Items", "Tier_Perks" >>

SourceRelations ==
    << Rel("Customers", "purchases", "Subscriptions_Sales"),
       Rel("Products", "sales", "Subscriptions_Sales"),
       Rel("Membership_Tiers", "members", "Subscriptions_Sales"),
       Rel("Products", "bundle", "Bundle_Items"),
       Rel("Membership_Tiers", "perks", "Tier_Perks"),
       Rel("Products", "target_perks", "Tier_Perks") >>

SourceSeeds ==
    << Seed("Membership_Tiers", 3), Seed("Products", 5), Seed("Customers", 5) >>

SourceSchema ==
    [tables |-> SourceTables, relations |-> SourceRelations, seeds |-> SourceSeeds]

\* 3 tables, 2 links whose endpoints are both tables of the schema
SchemaA ==
    [tables |-> << "Products", "Customers", "Subscriptions_Sales" >>,
     relations |-> SubSeq(SourceRelations, 1, 2),
     seeds |-> SubSeq(SourceSeeds, 2, 3)]

\* 4 tables, 3 links
SchemaB ==
    [tables |-> SubSeq(SourceTables, 1, 4),
     relations |-> SubSeq(SourceRelations, 1, 3),
     seeds |-> SourceSeeds]

Schemas == {SourceSchema, SchemaA, SchemaB}

\* 4 tables, 1 link, 1 seed batch
SchemaT ==
    [tables |-> SubSeq(SourceTables, 1, 4),
     relations |-> SubSeq(SourceRelations, 1, 1),
     seeds |-> SubSeq(SourceSeeds, 1, 1)]

\* 1 table, no link, 1 seed batch
SchemaS ==
    [tables |-> SubSeq(SourceTables, 1, 1),
     relations |-> <<>>,
     seeds |-> SubSeq(SourceSeeds, 2, 2)]

----------------------------------------------------------------------------
(* Remote requests and error lines *)

\* One remote HTTP request: the operation, the container and table it
\* addresses, the identifier it refers to, the name it carries (table or
\* field name), the number of records, the bearer token of its header, and
\* whether the session or a later caller of the agent issued it.
Req(op, app, table, target, name, n, tok, ctx) ==
    [op |-> op, app |-> app, table |-> table, target |-> target,
     name |-> name, n |-> n, tok |-> tok, ctx |-> ctx]

AuthReq(ctx) == Req("auth", None, None, None, "", 0, None, ctx)

\* One error line: what failed and the logical name the line carries
\* ("" when the message names no table or field).
Err(what, name) == [what |-> what, name |-> name]

Count(rs, op) == Cardinality({i \in DOMAIN rs : rs[i].op = op})

\* Identifiers assigned by the remote service
TableId(app, name) == <<Val(app), name>>

\* What the remote service can answer
Responses == {"ok", "code_err", "exception"}
Expires == {300, 7200}
AuthResponses ==
    {[kind |-> "ok", expire |-> Some(e)] : e \in Expires}
    \cup {[kind |-> k, expire |-> None] :
            k \in {"ok", "no_token", "bad_expire", "code_err", "exception"}}

----------------------------------------------------------------------------
(* EnhancedMCPAgent: the methods *)

\* get_access_token keeping no cache, as MCPToolAgent.get_access_token
TokenValidNoCache == FALSE

\* The cache test of get_access_token
TokenValid ==
    /\ access_token # None
    /\ token_expires_at # None
    /\ now < Val(token_expires_at) - MarginSeconds

\* The expiry stored with an issued credential: the time taken when the call
\* started plus the lifetime the response carries, 7200 s when it carries none
IssuedExpiryAlwaysDefault(resp) == now + DefaultExpire

IssuedExpiry(resp) ==
    now + (IF resp.expire = None THEN DefaultExpire ELSE Val(resp.expire))

\* get_access_token(force_refresh) answered by resp: the returned value, the
\* new cache, whether a request was sent and whether an error was logged.
GetAccessToken(force, resp) ==
    IF ~force /\ TokenValid
    THEN [ret |-> access_token, tok |-> access_token,
          exp |-> token_expires_at, sent |-> FALSE, err |-> FALSE]
    ELSE LET t == Some(Count(reqs, "auth") + 1) IN
         CASE resp.kind = "ok" ->
                [ret |-> t, tok |-> t,
                 exp |-> Some(IssuedExpiry(resp)),
                 sent |-> TRUE, err |-> FALSE]
           [] resp.kind = "no_token" ->
                [ret |-> None, tok |-> None,
                 exp |-> Some(now + DefaultExpire),
                 sent |-> TRUE, err |-> FALSE]
           [] resp.kind = "bad_expire" ->
                [ret |-> None, tok |-> t, exp |-> token_expires_at,
                 sent |-> TRUE, err |-> TRUE]
           [] OTHER ->
                [ret |-> None, tok |-> access_token,
                 exp |-> token_expires_at, sent |-> TRUE, err |-> TRUE]

\* get_access_token posting a second time when the first answer gave no
\* token
AfterAuthReqsRetry(g, ctx) ==
    IF ~g.sent THEN reqs
    ELSE IF g.ret = None THEN Append(Append(reqs, AuthReq(ctx)), AuthReq(ctx))
    ELSE Append(reqs, AuthReq(ctx))

\* reqs and errlog after a get_access_token call g
AfterAuthReqs(g, ctx) == IF g.sent THEN Append(reqs, AuthReq(ctx)) ELSE reqs
AfterAuthLog(g) == IF g.err THEN Append(errlog, Err("token", "")) ELSE errlog

\* create_base_app returning a container token whatever the response code
CreateBaseAppIgnoresCode(aresp, resp) ==
    LET g == GetAccessToken(FALSE, aresp)
        rs == AfterAuthReqs(g, "session")
        lg == AfterAuthLog(g)
    IN  IF g.ret = None
        THEN [ret |-> None, tok |-> g.tok, exp |-> g.exp, reqs |-> rs,
              errlog |-> lg]
        ELSE LET rs2 == Append(rs, Req("create_base", None, None, None, "", 0,
                                       g.tok, "session"))
             IN  [ret |-> Some(Count(rs2, "create_base")), tok |-> g.tok,
                  exp |-> g.exp, reqs |-> rs2,
                  errlog |-> IF resp = "ok" THEN lg
                             ELSE Append(lg, Err("base", ""))]

\* create_base_app sending its request whatever get_access_token returned,
\* as MCPToolAgent.create_base_app does
CreateBaseAppUnchecked(aresp, resp) ==
    LET g == GetAccessToken(FALSE, aresp)
        rs == AfterAuthReqs(g, "session")
        lg == AfterAuthLog(g)
        rs2 == Append(rs, Req("create_base", None, None, None, "", 0, g.tok,
                              "session"))
    IN  IF resp = "ok"
        THEN [ret |-> Some(Count(rs2, "create_base")), tok |-> g.tok,
              exp |-> g.exp, reqs |-> rs2, errlog |-> lg]
        ELSE [ret |-> None, tok |-> g.tok, exp |-> g.exp, reqs |-> rs2,
              errlog |-> Append(lg, Err("base", ""))]

\* create_base_app answered by aresp (token endpoint) and resp
CreateBaseApp(aresp, resp) ==
    LET g == GetAccessToken(FALSE, aresp)
        rs == AfterAuthReqs(g, "session")
        lg == AfterAuthLog(g)
    IN  IF g.ret = None
        THEN [ret |-> None, tok |-> g.tok, exp |-> g.exp, reqs |-> rs,
              errlog |-> lg]
        ELSE LET rq == Req("create_base", None, None, None, "", 0, g.tok,
                           "session")
                 rs2 == Append(rs, rq)
             IN  IF resp = "ok"
                 THEN [ret |-> Some(Count(rs2, "create_base")), tok |-> g.tok,
                       exp |-> g.exp, reqs |-> rs2, errlog |-> lg]
                 ELSE [ret |-> None, tok |-> g.tok, exp |-> g.exp,
                       reqs |-> rs2, errlog |-> Append(lg, Err("base", ""))]

\* map[name] = v
Put(map, name, v) ==
    [n \in DOMAIN map \cup {name} |-> IF n = name THEN v ELSE map[n]]

\* create_table_advanced registering and returning an identifier whatever
\* the response code
CreateTableAdvancedIgnoresCode(app, name, resp) ==
    LET rq == Req("create_table", app, None, None, name, 0, access_token,
                  "session")
    IN  [ret |-> Some(TableId(app, name)),
         created |-> Put(created_tables, name, TableId(app, name)),
         reqs |-> Append(reqs, rq),
         errlog |-> IF resp = "ok" THEN errlog
                    ELSE Append(errlog, Err("table", name))]

\* create_table_advanced sending its request once more when it fails
CreateTableAdvancedRetries(app, name, resp) ==
    LET rq == Req("create_table", app, None, None, name, 0, access_token,
                  "session")
    IN  IF resp = "ok"
        THEN [ret |-> Some(TableId(app, name)),
              created |-> Put(created_tables, name, TableId(app, name)),
              reqs |-> Append(reqs, rq), errlog |-> errlog]
        ELSE [ret |-> None, created |-> created_tables,
              reqs |-> Append(Append(reqs, rq), rq),
              errlog |-> Append(errlog, Err("table", name))]

\* create_table_advanced(app_token, config) answered by resp
CreateTableAdvanced(app, name, resp) ==
    LET rq == Req("create_table", app, None, None, name, 0, access_token,
                  "session")
    IN  IF resp = "ok"
        THEN [ret |-> Some(TableId(app, name)),
              created |-> Put(created_tables, name, TableId(app, name)),
              reqs |-> Append(reqs, rq), errlog |-> errlog]
        ELSE [ret |-> None, created |-> created_tables,
              reqs |-> Append(reqs, rq),
              errlog |-> Append(errlog, Err("table", name))]

\* dict.get(name): None when the name is not a key
Get(map, name) == IF name \in DOMAIN map THEN Some(map[name]) ELSE None

\* add_link_field posting the link field of the target table along with
\* the one of the source table, before either is answered
AddLinkFieldBothWays(app, table_id, field_name, target_table_id, resp) ==
    LET rq == Req("add_link", app, table_id, target_table_id,
                  field_name, 0, access_token, "session")
        back == Req("add_link", app, target_table_id, table_id,
                    field_name, 0, access_token, "session")
    IN  [ret |-> resp = "ok", reqs |-> Append(Append(reqs, rq), back),
         errlog |-> IF resp = "ok" THEN errlog
                    ELSE Append(errlog, Err("link", ""))]

\* add_link_field(app_token, table_id, field_name, target_table_id), the two
\* identifiers as _setup_table_relations got them from the registry
AddLinkField(app, table_id, field_name, target_table_id, resp) ==
    LET rq == Req("add_link", app, table_id, target_table_id,
                  field_name, 0, access_token, "session")
    IN  [ret |-> resp = "ok", reqs |-> Append(reqs, rq),
         errlog |-> IF resp = "ok" THEN errlog
                    ELSE Append(errlog, Err("link", ""))]

\* add_rollup_field(app_token, table_id, rollup_config)
AddRollupField(app, table_id, cfg, resp) ==
    IF Get(created_tables, cfg.target_table) = None
    THEN [ret |-> FALSE, reqs |-> reqs,
          errlog |-> Append(errlog, Err("rollup_target", cfg.target_table))]
    ELSE LET rq == Req("add_rollup", app, Some(table_id),
                       Get(created_tables, cfg.target_table),
                       cfg.field_name, 0, access_token, "api")
         IN  [ret |-> resp = "ok", reqs |-> Append(reqs, rq),
              errlog |-> IF resp = "ok" THEN errlog
                         ELSE Append(errlog, Err("rollup", ""))]

Min(a, b) == IF a < b THEN a ELSE b

\* n records, each one told from the others
Records(n) == [k \in 1..n |-> k]

\* records[i : i + batch_size]
Slice(records, i) == SubSeq(records, i + 1, Min(i + BatchSize, Len(records)))

\* len(result["data"]["records"]) of an answer with code 0 to a chunk of
\* size records: the remote service returns them all, or one fewer
AddedCounts(size) == {c \in {size, size - 1} : c >= 0}

\* BatchChunk adding the size of the chunk it posted to total_added, not
\* the number of records of the answer
BatchChunkCountsPosted(app, table_id, records, i, resp, added, ctx) ==
    LET batch == Slice(records, i)
        rq == Req("batch_create", app, Some(table_id), None, "", Len(batch),
                  access_token, ctx)
    IN  IF resp = "ok"
        THEN [batch |-> batch, done |-> i + BatchSize >= Len(records),
              ret |-> TRUE, total |-> total_added + Len(batch),
              reqs |-> Append(reqs, rq), errlog |-> errlog]
        ELSE [batch |-> batch, done |-> TRUE, ret |-> FALSE,
              total |-> total_added, reqs |-> Append(reqs, rq),
              errlog |-> Append(errlog, Err("batch", ""))]

\* One pass of the chunk loop of batch_add_records, at offset i: the chunk
\* records[i : i + batch_size] is posted; answered with code 0 and added
\* records, it is added to total_added; a failed chunk returns False at once.
\* done: the call has returned.
BatchChunk(app, table_id, records, i, resp, added, ctx) ==
    LET batch == Slice(records, i)
        rq == Req("batch_create", app, Some(table_id), None, "", Len(batch),
                  access_token, ctx)
    IN  IF resp = "ok"
        THEN [batch |-> batch, done |-> i + BatchSize >= Len(records),
              ret |-> TRUE, total |-> total_added + added,
              reqs |-> Append(reqs, rq), errlog |-> errlog]
        ELSE [batch |-> batch, done |-> TRUE, ret |-> FALSE,
              total |-> total_added, reqs |-> Append(reqs, rq),
              errlog |-> Append(errlog, Err("batch", ""))]

\* The order in which monitor_system_health visits self.created_tables
RegistryOrder ==
    SelectSeq(schema.tables, LAMBDA n : n \in DOMAIN created_tables)

\* One pass of the loop in which the overall status follows the table
\* fetched last
HealthEntryLastWins(hs, name, resp) ==
    [tables |-> Put(hs.tables, name,
                    IF resp = "ok" THEN "healthy" ELSE "error"),
     overall_status |-> IF resp = "ok" THEN "healthy" ELSE "degraded"]

\* One pass of the loop in which a failed fetch marks every table of the
\* report
HealthEntryErrorSpreads(hs, name, resp) ==
    IF resp = "ok"
    THEN [tables |-> Put(hs.tables, name, "healthy"),
          overall_status |-> hs.overall_status]
    ELSE [tables |-> [n \in DOMAIN hs.tables \cup {name} |-> "error"],
          overall_status |-> "degraded"]

\* One pass of the loop of monitor_system_health, for table name
HealthEntry(hs, name, resp) ==
    [tables |-> Put(hs.tables, name,
                    IF resp = "ok" THEN "healthy" ELSE "error"),
     overall_status |-> IF resp = "ok" THEN hs.overall_status ELSE "degraded"]

EmptyMap == [n \in {} |-> None]

\* The health_status dict: made at the start of monitor_system_health
NewHealth == [tables |-> EmptyMap, overall_status |-> "healthy"]
CurrentHealth == IF health_status = None THEN NewHealth ELSE Val(health_status)

----------------------------------------------------------------------------
(* EnhancedMCPAgent.create_enhanced_crm_system *)

\* NextPc with the health check moved before the sample data
NextPcHealthFirst(p) ==
    CASE p = "links" -> "rollups"
      [] p = "rollups" -> "health"
      [] p = "health" -> "records"
      [] p = "records" -> "done"

\* The order of the steps of the session after the table loop
NextPc(p) ==
    CASE p = "links" -> "rollups"
      [] p = "rollups" -> "records"
      [] p = "records" -> "health"
      [] p = "health" -> "done"

\* RelationsEnabled with >= for >
RelationsEnabledAtThreshold ==
    Cardinality(DOMAIN creation_results) >= MinTables

\* Step 5's guard: relations are set up only with enough tables created
RelationsEnabled == Cardinality(DOMAIN creation_results) > MinTables

ErrorResult(msg) == Some([status |-> "error", message |-> msg])

\* The result reporting an error when no table was created
SuccessResultNeedsTables ==
    IF creation_results = EmptyMap THEN ErrorResult("No tables created")
    ELSE Some([status |-> "success", app_token |-> Val(app_token),
               tables |-> creation_results, health_status |-> CurrentHealth])

SuccessResult ==
    Some([status |-> "success", app_token |-> Val(app_token),
          tables |-> creation_results, health_status |-> CurrentHealth])

\* Step 1: authentication
Authenticate ==
    /\ agent = "enhanced" /\ pc = "auth"
    /\ \E resp \in AuthResponses :
         LET g == GetAccessToken(FALSE, resp) IN
         /\ access_token' = g.tok
         /\ token_expires_at' = g.exp
         /\ reqs' = AfterAuthReqs(g, "session")
         /\ errlog' = AfterAuthLog(g)
         /\ IF g.ret = None
            THEN result' = ErrorResult("Authentication failed") /\ pc' = "done"
            ELSE result' = result /\ pc' = "base"
    /\ UNCHANGED <<promptMgmt, agent, schema, idx, off, total_added, now, ticks, app_token,
                   created_tables, creation_results, health_status,
                   api_calls, call>>

\* Step 2: the container
CreateBase ==
    /\ agent = "enhanced" /\ pc = "base"
    /\ \E aresp \in AuthResponses, resp \in Responses :
         LET c == CreateBaseApp(aresp, resp) IN
         /\ access_token' = c.tok
         /\ token_expires_at' = c.exp
         /\ reqs' = c.reqs
         /\ errlog' = c.errlog
         /\ app_token' = c.ret
         /\ IF c.ret = None
            THEN result' = ErrorResult("Base creation failed") /\ pc' = "done"
            ELSE result' = result /\ pc' = "tables"
    /\ idx' = 1
    /\ UNCHANGED <<promptMgmt, agent, schema, off, total_added, now, ticks, created_tables,
                   creation_results, health_status, api_calls, call>>

\* Step 4: one pass of the table loop
CreateTable ==
    /\ agent = "enhanced" /\ pc = "tables" /\ idx <= Len(schema.tables)
    /\ \E resp \in Responses :
         LET name == schema.tables[idx]
             c == CreateTableAdvanced(app_token, name, resp)
         IN  /\ created_tables' = c.created
             /\ reqs' = c.reqs
             /\ creation_results' =
                  IF c.ret # None THEN Put(creation_results, name, Val(c.ret))
                  ELSE creation_results
             /\ errlog' = IF c.ret # None THEN c.errlog
                          ELSE Append(c.errlog, Err("table", name))
    /\ idx' = idx + 1
    /\ UNCHANGED <<promptMgmt, agent, schema, pc, off, total_added, now, ticks,
                   access_token, token_expires_at, app_token, health_status,
                   result, api_calls, call>>

\* Step 5: after the table loop, the relations are entered or passed over
TablesDone ==
    /\ agent = "enhanced" /\ pc = "tables" /\ idx > Len(schema.tables)
    /\ pc' = IF RelationsEnabled THEN "links" ELSE NextPc("links")
    /\ idx' = 1
    /\ UNCHANGED <<promptMgmt, agent, schema, off, total_added, now, ticks, access_token,
                   token_expires_at, app_token, created_tables,
                   creation_results, health_status, result,
                   api_calls, call, reqs,
                   errlog>>

\* Resolves looking at the source table only
ResolvesSourceOnly(rel) == Get(created_tables, rel.source_table) # None

\* _setup_table_relations: `if source_id and target_id`
Resolves(rel) ==
    /\ Get(created_tables, rel.source_table) # None
    /\ Get(created_tables, rel.target_table) # None

\* The loop leaving the remaining relations when add_link_field failed
AfterLinkStops(ret) == IF ret THEN idx + 1 ELSE Len(schema.relations) + 1

\* The loop position after an add_link_field call: the value the call
\* returned is not looked at
AfterLink(ret) == idx + 1

\* _setup_table_relations: one pass of the loop
SetupRelation ==
    /\ agent = "enhanced" /\ pc = "links" /\ idx <= Len(schema.relations)
    /\ LET rel == schema.relations[idx] IN
       IF Resolves(rel)
       THEN \E resp \in Responses :
              LET a == AddLinkField(app_token,
                                    Get(created_tables, rel.source_table),
                                    rel.field_name,
                                    Get(created_tables, rel.target_table),
                                    resp)
              IN  /\ reqs' = a.reqs /\ errlog' = a.errlog
                  /\ idx' = AfterLink(a.ret)
       ELSE /\ UNCHANGED <<reqs, errlog>>
            /\ idx' = idx + 1
    /\ UNCHANGED <<promptMgmt, agent, schema, pc, off, total_added, now, ticks,
                   access_token, token_expires_at, app_token, created_tables,
                   creation_results, health_status, result, api_calls, call>>

RelationsDone ==
    /\ agent = "enhanced" /\ pc = "links" /\ idx > Len(schema.relations)
    /\ pc' = NextPc(pc)
    /\ idx' = 1
    /\ UNCHANGED <<promptMgmt, agent, schema, off, total_added, now, ticks, access_token,
                   token_expires_at, app_token, created_tables,
                   creation_results, health_status, result,
                   api_calls, call, reqs,
                   errlog>>

\* Step 6: _setup_rollup_calculations only writes an info line
SetupRollupCalculations ==
    /\ agent = "enhanced" /\ pc = "rollups"
    /\ pc' = NextPc(pc)
    /\ idx' = 1
    /\ UNCHANGED <<promptMgmt, agent, schema, off, total_added, now, ticks, access_token,
                   token_expires_at, app_token, created_tables,
                   creation_results, health_status, result,
                   api_calls, call, reqs,
                   errlog>>

\* The registry entry taken for a seed batch without looking at its name
SeedTargetAnyTable(seed) ==
    IF RegistryOrder = <<>> THEN None
    ELSE Some(created_tables[RegistryOrder[1]])

\* The registry entry a seed batch goes to: `if "X" in self.created_tables`,
\* then self.created_tables["X"]
SeedTarget(seed) == Get(created_tables, seed.table)

\* Step 7: _add_comprehensive_sample_data, one chunk of one seed batch, or a
\* seed batch passed over because its table is not in the registry
AddSampleData ==
    /\ agent = "enhanced" /\ pc = "records" /\ idx <= Len(schema.seeds)
    /\ LET seed == schema.seeds[idx]
           t == SeedTarget(seed)
       IN
       IF t # None /\ off < seed.n
       THEN \E resp \in Responses :
            \E added \in AddedCounts(Len(Slice(Records(seed.n), off))) :
              LET b == BatchChunk(app_token, Val(t),
                                  Records(seed.n), off, resp, added, "session")
              IN  /\ reqs' = b.reqs
                  /\ errlog' = b.errlog
                  /\ IF b.done
                     THEN idx' = idx + 1 /\ off' = 0 /\ total_added' = 0
                     ELSE idx' = idx /\ off' = off + BatchSize
                          /\ total_added' = b.total
       ELSE /\ idx' = idx + 1 /\ off' = 0 /\ total_added' = 0
            /\ UNCHANGED <<reqs, errlog>>
    /\ UNCHANGED <<promptMgmt, agent, schema, pc, now, ticks, access_token,
                   token_expires_at, app_token, created_tables,
                   creation_results, health_status, result, api_calls, call>>

SampleDataDone ==
    /\ agent = "enhanced" /\ pc = "records" /\ idx > Len(schema.seeds)
    /\ pc' = NextPc(pc)
    /\ idx' = 1
    /\ UNCHANGED <<promptMgmt, agent, schema, off, total_added, now, ticks, access_token,
                   token_expires_at, app_token, created_tables,
                   creation_results, health_status, result,
                   api_calls, call, reqs,
                   errlog>>

\* A health check that drops from the registry a table whose fetch failed
MonitorTableForgetsFailed ==
    /\ agent = "enhanced" /\ pc = "health" /\ idx <= Len(RegistryOrder)
    /\ \E resp \in Responses :
         LET name == RegistryOrder[idx]
             rq == Req("get_table", app_token, Some(created_tables[name]),
                       None, "", 0, access_token, "session")
         IN  /\ reqs' = Append(reqs, rq)
             /\ health_status' = Some(HealthEntry(CurrentHealth, name, resp))
             /\ IF resp = "ok"
                THEN created_tables' = created_tables /\ idx' = idx + 1
                ELSE /\ created_tables' =
                          [n \in DOMAIN created_tables \ {name}
                             |-> created_tables[n]]
                     /\ idx' = idx
    /\ UNCHANGED <<promptMgmt, agent, schema, pc, off, total_added, now, ticks,
                   access_token, token_expires_at, app_token,
                   creation_results, result, api_calls, call, errlog>>

\* Step 8: monitor_system_health, one pass of the loop
MonitorTable ==
    /\ agent = "enhanced" /\ pc = "health" /\ idx <= Len(RegistryOrder)
    /\ \E resp \in Responses :
         LET name == RegistryOrder[idx]
             rq == Req("get_table", app_token, Some(created_tables[name]),
                       None, "", 0, access_token, "session")
         IN  /\ reqs' = Append(reqs, rq)
             /\ health_status' = Some(HealthEntry(CurrentHealth, name, resp))
    /\ idx' = idx + 1
    /\ UNCHANGED <<promptMgmt, agent, schema, pc, off, total_added, now, ticks,
                   access_token, token_expires_at, app_token, created_tables,
                   creation_results, result, api_calls, call, errlog>>

\* The return of create_enhanced_crm_system
Finish ==
    /\ agent = "enhanced" /\ pc = "health" /\ idx > Len(RegistryOrder)
    /\ result' = SuccessResult
    /\ health_status' = Some(CurrentHealth)
    /\ pc' = NextPc(pc)
    /\ UNCHANGED <<promptMgmt, agent, schema, idx, off, total_added, now, ticks,
                   access_token, token_expires_at, app_token, created_tables,
                   creation_results, api_calls, call, reqs, errlog>>

\* A call of a method of the agent by its owner: the method, its arguments
\* (force_refresh, records), the chunks it has posted, its info lines
\* "Batch k: Added c records", the count of its info line "Total records
\* added", and the value it returned (None while it runs).
CallRec(op, force, records, sent, added, total, ret) ==
    [op |-> op, force |-> force, records |-> records, sent |-> sent,
     added |-> added, total |-> total, ret |-> ret]

\* Rollup definitions a caller may hand to add_rollup_field
RollupCfg(t, f, tt, tf, fn) ==
    [table_name |-> t, field_name |-> f, target_table |-> tt,
     target_field |-> tf, function |-> fn]

RollupConfigs ==
    { RollupCfg("Customers", "ltv", "Subscriptions_Sales", "amount", "sum"),
      RollupCfg("Products", "refunds", "Refunds", "amount", "count") }

\* add_rollup_field has no caller in the repository: it is called here by
\* the owner of the agent, on a table of the result of a successful session.
CallAddRollupField ==
    /\ agent = "enhanced" /\ pc = "done" /\ api_calls < MaxApiCalls
    /\ result # None /\ Val(result).status = "success"
    /\ \E cfg \in RollupConfigs, resp \in Responses :
         /\ cfg.table_name \in DOMAIN Val(result).tables
         /\ LET a == AddRollupField(app_token,
                                    Val(result).tables[cfg.table_name], cfg,
                                    resp)
            IN  /\ reqs' = a.reqs /\ errlog' = a.errlog
                /\ call' = Some(CallRec("add_rollup_field", FALSE, <<>>, <<>>,
                                        <<>>, None, Some(a.ret)))
    /\ api_calls' = api_calls + 1
    /\ UNCHANGED <<promptMgmt, agent, schema, pc, idx, off, total_added, now, ticks,
                   access_token, token_expires_at, app_token, created_tables,
                   creation_results, health_status, result>>

\* get_access_token(force_refresh) called by the owner of the agent, on a
\* newly constructed agent or once the session has returned
CallGetAccessToken ==
    /\ agent = "enhanced" /\ pc \in {"idle", "done"}
    /\ api_calls < MaxApiCalls
    /\ \E force \in BOOLEAN, resp \in AuthResponses :
         LET g == GetAccessToken(force, resp) IN
         /\ access_token' = g.tok
         /\ token_expires_at' = g.exp
         /\ reqs' = AfterAuthReqs(g, "api")
         /\ errlog' = AfterAuthLog(g)
         /\ call' = Some([op |-> "get_access_token", force |-> force,
                          records |-> <<>>, sent |-> <<>>, added |-> <<>>,
                          total |-> None, ret |-> Some(g.ret),
                          answer |-> IF g.sent THEN Some(resp) ELSE None])
    /\ api_calls' = api_calls + 1
    /\ UNCHANGED <<promptMgmt, agent, schema, pc, idx, off, total_added, now, ticks,
                   app_token, created_tables, creation_results, health_status,
                   result>>

\* create_enhanced_crm_system() called once more on the same agent object,
\* after an earlier call has returned: app_token, creation_results and
\* health_status are locals of the call, the registry and the cached
\* credential are members of the object
CallCreateEnhancedCrmSystem ==
    /\ agent = "enhanced" /\ pc = "done"
    /\ api_calls < MaxApiCalls
    /\ api_calls' = api_calls + 1
    /\ pc' = "auth"
    /\ idx' = 1
    /\ app_token' = None
    /\ creation_results' = EmptyMap
    /\ health_status' = None
    /\ result' = None
    /\ UNCHANGED <<promptMgmt, agent, schema, off, total_added, now, ticks, access_token,
                   token_expires_at, created_tables, call, reqs, errlog>>

\* The container and the table the owner hands to batch_add_records
OwnerApp == Some(0)
OwnerTable == TableId(OwnerApp, "Customers")

\* batch_add_records(app_token, table_id, records) called by the owner of a
\* newly constructed agent: up to the head of the chunk loop
CallBatchAddRecords ==
    /\ agent = "enhanced" /\ pc = "idle"
    /\ \E n \in 0..MaxRecords :
         call' = Some(CallRec("batch_add_records", FALSE, Records(n), <<>>,
                              <<>>, None, None))
    /\ pc' = "batch"
    /\ off' = 0
    /\ total_added' = 0
    /\ UNCHANGED <<promptMgmt, agent, schema, idx, now, ticks, access_token,
                   token_expires_at, app_token, created_tables,
                   creation_results, health_status, result, api_calls, reqs,
                   errlog>>

\* One pass of the chunk loop of that call
BatchPost ==
    /\ pc = "batch" /\ off < Len(Val(call).records)
    /\ \E resp \in Responses :
       \E added \in AddedCounts(Len(Slice(Val(call).records, off))) :
         LET c == Val(call)
             b == BatchChunk(OwnerApp, OwnerTable, c.records, off, resp,
                             added, "api")
         IN  /\ reqs' = b.reqs
             /\ errlog' = b.errlog
             /\ total_added' = b.total
             /\ IF b.ret
                THEN /\ off' = off + BatchSize
                     /\ pc' = pc
                     /\ call' = Some(CallRec(c.op, c.force, c.records,
                                             Append(c.sent, b.batch),
                                             Append(c.added,
                                                    [batch |->
                                                       off \div BatchSize + 1,
                                                     added |-> added]),
                                             None, None))
                ELSE /\ off' = off
                     /\ pc' = "returned"
                     /\ call' = Some(CallRec(c.op, c.force, c.records,
                                             Append(c.sent, b.batch), c.added,
                                             None, Some(FALSE)))
    /\ UNCHANGED <<promptMgmt, agent, schema, idx, now, ticks, access_token,
                   token_expires_at, app_token, created_tables,
                   creation_results, health_status, result, api_calls>>

\* The chunk loop is over: the total is logged and the call returns True
BatchReturn ==
    /\ pc = "batch" /\ off >= Len(Val(call).records)
    /\ LET c == Val(call) IN
       call' = Some(CallRec(c.op, c.force, c.records, c.sent, c.added,
                            Some(total_added), Some(TRUE)))
    /\ pc' = "returned"
    /\ UNCHANGED <<promptMgmt, agent, schema, idx, off, total_added, now, ticks,
                   access_token, token_expires_at, app_token, created_tables,
                   creation_results, health_status, result, api_calls, reqs,
                   errlog>>

\* Time passes between two steps of a session
Tick ==
    /\ pc # "done" /\ ticks < MaxTicks
    /\ now' = now + TickSeconds
    /\ ticks' = ticks + 1
    /\ UNCHANGED <<promptMgmt, agent, schema, pc, idx, off, total_added, access_token,
                   token_expires_at, app_token, created_tables,
                   creation_results, health_status, result,
                   api_calls, call, reqs,
                   errlog>>

----------------------------------------------------------------------------
(* MCPToolAgent (src/mcp-tool-agent.py) *)

SimpleAuthResponses == {"ok", "no_token", "code_err", "exception"}

\* The records add_sample_data adds: one membership tier, three products
ToolSeeds == << Seed("Membership_Tiers", 1), Seed("Products", 3) >>

ToolSchema ==
    [tables |-> SourceTables, relations |-> <<>>, seeds |-> ToolSeeds]

\* get_access_token: no cache; printing the first characters of a missing
\* token raises inside the try block, after the assignment
ToolGetAccessToken(resp) ==
    LET t == Some(Count(reqs, "auth") + 1) IN
    CASE resp = "ok" -> [ret |-> t, tok |-> t, err |-> FALSE]
      [] resp = "no_token" -> [ret |-> None, tok |-> None, err |-> TRUE]
      [] OTHER -> [ret |-> None, tok |-> access_token, err |-> TRUE]

\* create_base_app: the token is fetched when none is held, and the
\* request is sent whatever that fetch returned
ToolCreateBaseApp(aresp, resp) ==
    LET fetch == access_token = None
        g == ToolGetAccessToken(aresp)
        tok == IF fetch THEN g.tok ELSE access_token
        rs == IF fetch THEN Append(reqs, AuthReq("session")) ELSE reqs
        lg == IF fetch /\ g.err THEN Append(errlog, Err("token", ""))
              ELSE errlog
        rs2 == Append(rs, Req("create_base", None, None, None, "", 0, tok,
                              "session"))
    IN  IF resp = "ok"
        THEN [ret |-> Some(Count(rs2, "create_base")), tok |-> tok,
              reqs |-> rs2, errlog |-> lg]
        ELSE [ret |-> None, tok |-> tok, reqs |-> rs2,
              errlog |-> Append(lg, Err("base", ""))]

\* create_table(app_token, table_name, fields)
ToolCreateTableOp(app, name, resp) ==
    LET rq == Req("create_table", app, None, None, name, 0, access_token,
                  "session")
    IN  [ret |-> IF resp = "ok" THEN Some(TableId(app, name)) ELSE None,
         reqs |-> Append(reqs, rq),
         errlog |-> IF resp = "ok" THEN errlog
                    ELSE Append(errlog, Err("table", name))]

\* create_crm_system, step 1
ToolAuthenticate ==
    /\ agent = "tool" /\ pc = "auth"
    /\ \E resp \in SimpleAuthResponses :
         LET g == ToolGetAccessToken(resp) IN
         /\ access_token' = g.tok
         /\ reqs' = Append(reqs, AuthReq("session"))
         /\ errlog' = IF g.err THEN Append(errlog, Err("token", "")) ELSE errlog
         /\ IF g.ret = None
            THEN result' = ErrorResult("Authentication failed") /\ pc' = "done"
            ELSE result' = result /\ pc' = "base"
    /\ UNCHANGED <<promptMgmt, agent, schema, idx, off, total_added, now, ticks,
                   token_expires_at, app_token, created_tables,
                   creation_results, health_status, api_calls, call>>

\* create_crm_system, step 2
ToolCreateBase ==
    /\ agent = "tool" /\ pc = "base"
    /\ \E aresp \in SimpleAuthResponses, resp \in Responses :
         LET c == ToolCreateBaseApp(aresp, resp) IN
         /\ access_token' = c.tok
         /\ reqs' = c.reqs
         /\ errlog' = c.errlog
         /\ app_token' = c.ret
         /\ IF c.ret = None
            THEN result' = ErrorResult("Base creation failed") /\ pc' = "done"
            ELSE result' = result /\ pc' = "tables"
    /\ idx' = 1
    /\ UNCHANGED <<promptMgmt, agent, schema, off, total_added, now, ticks,
                   token_expires_at, created_tables, creation_results,
                   health_status, api_calls, call>>

\* create_crm_system, step 3: the next of the six create_table calls
ToolCreateTable ==
    /\ agent = "tool" /\ pc = "tables" /\ idx <= Len(schema.tables)
    /\ \E resp \in Responses :
         LET name == schema.tables[idx]
             c == ToolCreateTableOp(app_token, name, resp)
         IN  /\ reqs' = c.reqs
             /\ errlog' = c.errlog
             /\ creation_results' =
                  IF c.ret # None THEN Put(creation_results, name, Val(c.ret))
                  ELSE creation_results
    /\ idx' = idx + 1
    /\ UNCHANGED <<promptMgmt, agent, schema, pc, off, total_added, now, ticks,
                   access_token, token_expires_at, app_token, created_tables,
                   health_status, result, api_calls, call>>

\* The return of create_crm_system
ToolFinish ==
    /\ agent = "tool" /\ pc = "tables" /\ idx > Len(schema.tables)
    /\ result' = Some([status |-> "success", app_token |-> Val(app_token),
                       tables |-> creation_results])
    /\ pc' = "done"
    /\ UNCHANGED <<promptMgmt, agent, schema, idx, off, total_added, now, ticks,
                   access_token, token_expires_at, app_token, created_tables,
                   creation_results, health_status,
                   api_calls, call, reqs, errlog>>

\* add_record(app_token, table_id, fields) answered by resp
ToolAddRecordOp(app, table_id, resp) ==
    LET rq == Req("add_record", app, Some(table_id), None, "", 1,
                  access_token, "main")
    IN  [ret |-> resp = "ok",
         reqs |-> Append(reqs, rq),
         errlog |-> IF resp = "ok" THEN errlog
                    ELSE Append(errlog, Err("record", ""))]

\* The table of the result a sample batch goes to: `if "X" in tables`,
\* then tables["X"]
ToolSeedTarget(seed) == Get(Val(result).tables, seed.table)

\* main(): a session that returned success is followed by
\* add_sample_data(result["app_token"], result["tables"])
ToolMain ==
    /\ agent = "tool" /\ pc = "done"
    /\ Val(result).status = "success"
    /\ pc' = "sample"
    /\ idx' = 1
    /\ off' = 0
    /\ UNCHANGED <<promptMgmt, agent, schema, total_added, now, ticks, access_token,
                   token_expires_at, app_token, created_tables,
                   creation_results, health_status, result, api_calls, call,
                   reqs, errlog>>

\* add_sample_data: the next add_record call, or a sample batch passed over
\* because its table is not in the tables map
ToolAddSampleData ==
    /\ agent = "tool" /\ pc = "sample" /\ idx <= Len(schema.seeds)
    /\ LET seed == schema.seeds[idx]
           t == ToolSeedTarget(seed)
       IN  IF t # None
           THEN \E resp \in Responses :
                  LET a == ToolAddRecordOp(Some(Val(result).app_token),
                                           Val(t), resp)
                  IN  /\ reqs' = a.reqs
                      /\ errlog' = a.errlog
                      /\ IF off + 1 < seed.n
                         THEN idx' = idx /\ off' = off + 1
                         ELSE idx' = idx + 1 /\ off' = 0
           ELSE /\ idx' = idx + 1 /\ off' = 0
                /\ UNCHANGED <<reqs, errlog>>
    /\ UNCHANGED <<promptMgmt, agent, schema, pc, total_added, now, ticks, access_token,
                   token_expires_at, app_token, created_tables,
                   creation_results, health_status, result, api_calls, call>>

\* add_sample_data returns and main() ends
ToolSampleDataDone ==
    /\ agent = "tool" /\ pc = "sample" /\ idx > Len(schema.seeds)
    /\ pc' = "ready"
    /\ UNCHANGED <<promptMgmt, agent, schema, idx, off, total_added, now, ticks,
                   access_token, token_expires_at, app_token, created_tables,
                   creation_results, health_status, result, api_calls, call,
                   reqs, errlog>>

----------------------------------------------------------------------------
(* YouTubeCRMIntegration (src/implement-crm-in-youtube-base.py) *)

YouTubeSchema ==
    [tables |-> << "SalesPipeline", "CustomerManagement", "ActivityHistory",
                   "SalesTargets" >>,
     relations |-> <<>>, seeds |-> <<>>]

\* lark_config["existing_base_token"]
ExistingBase == Some(0)

\* get_access_token: no cache
YtGetAccessToken(resp) ==
    LET t == Some(Count(reqs, "auth") + 1) IN
    CASE resp = "ok" -> [ret |-> t, tok |-> t, err |-> FALSE]
      [] resp = "no_token" -> [ret |-> None, tok |-> None, err |-> FALSE]
      [] OTHER -> [ret |-> None, tok |-> access_token, err |-> TRUE]

\* create_table(table_name, fields), in the existing base
YtCreateTableOp(name, resp) ==
    LET rq == Req("create_table", ExistingBase, None, None, name, 0,
                  access_token, "session")
    IN  [ret |-> IF resp = "ok" THEN Some(TableId(ExistingBase, name))
                 ELSE None,
         reqs |-> Append(reqs, rq),
         errlog |-> IF resp = "ok" THEN errlog
                    ELSE Append(errlog, Err("table", name))]

\* create_crm_tables: authentication
YtAuthenticate ==
    /\ agent = "youtube" /\ pc = "auth"
    /\ \E resp \in SimpleAuthResponses :
         LET g == YtGetAccessToken(resp) IN
         /\ access_token' = g.tok
         /\ reqs' = Append(reqs, AuthReq("session"))
         /\ errlog' = IF g.err THEN Append(errlog, Err("token", "")) ELSE errlog
         /\ IF g.ret = None
            THEN result' = ErrorResult("auth failed") /\ pc' = "done"
            ELSE result' = result /\ pc' = "tables"
    /\ idx' = 1
    /\ UNCHANGED <<promptMgmt, agent, schema, off, total_added, now, ticks,
                   token_expires_at, app_token, created_tables,
                   creation_results, health_status, api_calls, call>>

\* create_crm_tables: the next of the four create_table calls
YtCreateTable ==
    /\ agent = "youtube" /\ pc = "tables" /\ idx <= Len(schema.tables)
    /\ \E resp \in Responses :
         LET name == schema.tables[idx]
             c == YtCreateTableOp(name, resp)
         IN  /\ reqs' = c.reqs
             /\ errlog' = c.errlog
             /\ created_tables' =
                  IF c.ret # None THEN Put(created_tables, name, Val(c.ret))
                  ELSE created_tables
    /\ idx' = idx + 1
    /\ UNCHANGED <<promptMgmt, agent, schema, pc, off, total_added, now, ticks,
                   access_token, token_expires_at, app_token,
                   creation_results, health_status, result, api_calls, call>>

\* The return of create_crm_tables
YtFinish ==
    /\ agent = "youtube" /\ pc = "tables" /\ idx > Len(schema.tables)
    /\ result' = Some([status |-> "success", app_token |-> Val(ExistingBase),
                       tables |-> created_tables])
    /\ pc' = "done"
    /\ UNCHANGED <<promptMgmt, agent, schema, idx, off, total_added, now, ticks,
                   access_token, token_expires_at, app_token, created_tables,
                   creation_results, health_status,
                   api_calls, call, reqs, errlog>>

----------------------------------------------------------------------------
(* Field type codes *)

\* The members of the enum FieldType, in declaration order
FieldTypeMembers ==
    << "TEXT", "NUMBER", "SINGLE_SELECT", "MULTI_SELECT", "DATETIME",
       "CHECKBOX", "USER", "PHONE", "URL", "ATTACHMENT", "LINK", "LOOKUP",
       "ROLLUP", "FORMULA", "AUTO_NUMBER" >>

\* FieldType[member].value
FieldType(member) ==
    CASE member = "TEXT" -> 1
      [] member = "NUMBER" -> 2
      [] member = "SINGLE_SELECT" -> 3
      [] member = "MULTI_SELECT" -> 4
      [] member = "DATETIME" -> 5
      [] member = "CHECKBOX" -> 7
      [] member = "USER" -> 11
      [] member = "PHONE" -> 13
      [] member = "URL" -> 15
      [] member = "ATTACHMENT" -> 17
      [] member = "LINK" -> 18
      [] member = "LOOKUP" -> 19
      [] member = "ROLLUP" -> 20
      [] member = "FORMULA" -> 21
      [] member = "AUTO_NUMBER" -> 22

\* The keys of the type_mapping of convert_field_type, in its order
ConvertKeys ==
    << "text", "number", "single_select", "multi_select", "datetime",
       "checkbox", "user", "phone", "url", "attachment", "link", "lookup",
       "rollup", "formula", "auto_number" >>

\* MCPToolAgent.convert_field_type(field_type)
ConvertFieldType(field_type) ==
    CASE field_type = "text" -> 1
      [] field_type = "number" -> 2
      [] field_type = "single_select" -> 3
      [] field_type = "multi_select" -> 4
      [] field_type = "datetime" -> 5
      [] field_type = "checkbox" -> 7
      [] field_type = "user" -> 11
      [] field_type = "phone" -> 13
      [] field_type = "url" -> 15
      [] field_type = "attachment" -> 17
      [] field_type = "link" -> 18
      [] field_type = "lookup" -> 19
      [] field_type = "rollup" -> 20
      [] field_type = "formula" -> 21
      [] field_type = "auto_number" -> 22
      [] OTHER -> 1

\* TestGenesisAgent.get_field_type_code(field_type)
GetFieldTypeCode(field_type) ==
    CASE field_type = "TEXT" -> 1
      [] field_type = "NUMBER" -> 2
      [] field_type = "SINGLE_SELECT" -> 3
      [] field_type = "MULTI_SELECT" -> 4
      [] field_type = "DATETIME" -> 5
      [] field_type = "USER" -> 11
      [] field_type = "AUTO_NUMBER" -> 22
      [] OTHER -> 1

\* The three translations of a field type to its code
Translators == {"FieldType", "convert_field_type", "get_field_type_code"}

\* The code translator fn gives for field_type
TypeCode(fn, field_type) ==
    CASE fn = "FieldType" -> FieldType(field_type)
      [] fn = "convert_field_type" -> ConvertFieldType(field_type)
      [] fn = "get_field_type_code" -> GetFieldTypeCode(field_type)

\* The field types handed to a translator: an enum member for FieldType;
\* for the two functions a type name in either spelling, or a name that is
\* no field type
TypeInputs(fn) ==
    IF fn = "FieldType" THEN Range(FieldTypeMembers)
    ELSE Range(FieldTypeMembers) \cup Range(ConvertKeys) \cup {"email"}

\* A call of a translator: its argument and the code it returned (None
\* before it returns)
TypeCodeCall(fn, field_type, ret) ==
    [op |-> fn, field_type |-> field_type, ret |-> ret]

\* The translator returns the code that goes into the request body
ReturnTypeCode ==
    /\ pc = "codes" /\ call # None /\ Val(call).ret = None
    /\ call' = Some(TypeCodeCall(Val(call).op, Val(call).field_type,
                                 Some(TypeCode(Val(call).op,
                                               Val(call).field_type))))
    /\ pc' = "coded"
    /\ UNCHANGED <<promptMgmt, agent, schema, idx, off, total_added, now, ticks,
                   access_token, token_expires_at, app_token, created_tables,
                   creation_results, health_status, result, api_calls, reqs,
                   errlog>>

----------------------------------------------------------------------------
(* The machine *)

\* The agent as its constructor leaves it, before any call
Constructed ==
    /\ idx = 1
    /\ off = 0
    /\ total_added = 0
    /\ now = 0
    /\ ticks = 0
    /\ access_token = None
    /\ token_expires_at = None
    /\ app_token = None
    /\ created_tables = EmptyMap
    /\ creation_results = EmptyMap
    /\ health_status = None
    /\ result = None
    /\ api_calls = 0
    /\ call = None
    /\ reqs = <<>>
    /\ errlog = <<>>
    /\ client = <<>>
    /\ results = <<>>
    /\ index = <<>>
    /\ generated = <<>>

Init ==
    /\ agent \in {"enhanced", "tool", "youtube"}
    /\ schema \in CASE agent = "enhanced" -> Schemas
                   [] agent = "tool" -> {ToolSchema}
                   [] agent = "youtube" -> {YouTubeSchema}
    /\ pc = "auth"
    /\ Constructed

Next ==
    \/ Authenticate
    \/ CreateBase
    \/ CreateTable
    \/ TablesDone
    \/ SetupRelation
    \/ RelationsDone
    \/ SetupRollupCalculations
    \/ AddSampleData
    \/ SampleDataDone
    \/ MonitorTable
    \/ Finish
    \/ CallAddRollupField
    \/ ToolAuthenticate
    \/ ToolCreateBase
    \/ ToolCreateTable
    \/ ToolFinish
    \/ ToolMain
    \/ ToolAddSampleData
    \/ ToolSampleDataDone
    \/ YtAuthenticate
    \/ YtCreateTable
    \/ YtFinish

Spec == Init /\ [][Next]_vars

\* The session of EnhancedMCPAgent with the clock running between its
\* steps, on a 4-table schema
InitTimed ==
    /\ agent = "enhanced"
    /\ schema = SchemaT
    /\ pc = "auth"
    /\ Constructed

NextTimed ==
    \/ Authenticate
    \/ CreateBase
    \/ CreateTable
    \/ TablesDone
    \/ SetupRelation
    \/ RelationsDone
    \/ SetupRollupCalculations
    \/ AddSampleData
    \/ SampleDataDone
    \/ MonitorTable
    \/ Finish
    \/ CallAddRollupField
    \/ CallGetAccessToken
    \/ Tick

SpecTimed == InitTimed /\ [][NextTimed]_vars

\* A newly constructed agent whose owner fetches the credential and calls
\* batch_add_records once
InitBatch ==
    /\ agent = "enhanced"
    /\ schema = SourceSchema
    /\ pc = "idle"
    /\ Constructed

NextBatch ==
    \/ CallGetAccessToken
    \/ CallBatchAddRecords
    \/ BatchPost
    \/ BatchReturn

SpecBatch == InitBatch /\ [][NextBatch]_vars

\* An agent object whose owner runs the session again after it returned,
\* on a 1-table schema
InitAgain ==
    /\ agent = "enhanced"
    /\ schema = SchemaS
    /\ pc = "auth"
    /\ Constructed

NextAgain ==
    \/ Authenticate
    \/ CreateBase
    \/ CreateTable
    \/ TablesDone
    \/ SetupRollupCalculations
    \/ AddSampleData
    \/ SampleDataDone
    \/ MonitorTable
    \/ Finish
    \/ CallCreateEnhancedCrmSystem

SpecAgain == InitAgain /\ [][NextAgain]_vars

\* A field type about to be translated to its code by one of the three
\* translators
InitCodes ==
    /\ agent \in {"enhanced", "tool", "genesis"}
    /\ schema = IF agent = "tool" THEN ToolSchema ELSE SourceSchema
    /\ pc = "codes"
    /\ idx = 1
    /\ off = 0
    /\ total_added = 0
    /\ now = 0
    /\ ticks = 0
    /\ access_token = None
    /\ token_expires_at = None
    /\ app_token = None
    /\ created_tables = EmptyMap
    /\ creation_results = EmptyMap
    /\ health_status = None
    /\ result = None
    /\ api_calls = 0
    /\ \E fn \in Translators :
         /\ fn = "FieldType" <=> agent = "enhanced"
         /\ fn = "convert_field_type" <=> agent = "tool"
         /\ \E t \in TypeInputs(fn) : call = Some(TypeCodeCall(fn, t, None))
    /\ reqs = <<>>
    /\ errlog = <<>>
    /\ client = <<>>
    /\ results = <<>>
    /\ index = <<>>
    /\ generated = <<>>

NextCodes == ReturnTypeCode

SpecCodes == InitCodes /\ [][NextCodes]_vars

----------------------------------------------------------------------------
(* MCPBridge (src/prompt-management/integrations/mcp_bridge.py) *)

CriticalTools ==
    {"bitable.v1.app.create", "bitable.v1.table.create",
     "docx.v1.document.create"}

\* The tools of the calls: the critical ones and one that is not
Tools == CriticalTools \cup {"bitable.v1.app.table.record.create"}

\* An MCPToolCall; parameters is a dict, or None, whose items() raises
MCPToolCall(tool, parameters) == [tool |-> tool, parameters |-> parameters]

ToolCalls ==
    {MCPToolCall(t, IF t = "bitable.v1.table.create" THEN None
                    ELSE Some("fields")) : t \in Tools}

\* What call_tool can do: return data, return data that reports a failure,
\* raise
ToolAnswers == {"done", "refused", "exception"}

MCPResult(success, data, error, tool_name) ==
    [success |-> success, data |-> data, error |-> error,
     tool_name |-> tool_name]

ToolReq(tool) == Req("call_tool", None, None, None, tool, 0, None, "api")

\* _should_stop_on_error stopping after any failed call
ShouldStopOnErrorAlways(tool_call) == TRUE

\* _should_stop_on_error
ShouldStopOnError(tool_call) == tool_call.tool \in CriticalTools

\* execute_tool reporting success whenever call_tool was reached
ExecuteToolHidesException(tool_call, answer) ==
    IF client = None
    THEN [ret |-> MCPResult(FALSE, None, Some("MCP client not connected"),
                            tool_call.tool),
          reqs |-> reqs, errlog |-> errlog]
    ELSE IF tool_call.parameters = None
    THEN [ret |-> MCPResult(FALSE, None, Some("no attribute 'items'"),
                            tool_call.tool),
          reqs |-> reqs,
          errlog |-> Append(errlog, Err("tool", tool_call.tool))]
    ELSE [ret |-> MCPResult(TRUE, Some(answer), None, tool_call.tool),
          reqs |-> Append(reqs, ToolReq(tool_call.tool)),
          errlog |-> errlog]

\* execute_tool(tool_call) with call_tool answering answer: the MCPResult it
\* returns, the tool invocations and the error lines after it
ExecuteTool(tool_call, answer) ==
    IF client = None
    THEN [ret |-> MCPResult(FALSE, None, Some("MCP client not connected"),
                            tool_call.tool),
          reqs |-> reqs, errlog |-> errlog]
    ELSE IF tool_call.parameters = None
    THEN [ret |-> MCPResult(FALSE, None, Some("no attribute 'items'"),
                            tool_call.tool),
          reqs |-> reqs,
          errlog |-> Append(errlog, Err("tool", tool_call.tool))]
    ELSE IF answer = "exception"
    THEN [ret |-> MCPResult(FALSE, None, Some("tool raised"),
                            tool_call.tool),
          reqs |-> Append(reqs, ToolReq(tool_call.tool)),
          errlog |-> Append(errlog, Err("tool", tool_call.tool))]
    ELSE [ret |-> MCPResult(TRUE, Some(answer), None, tool_call.tool),
          reqs |-> Append(reqs, ToolReq(tool_call.tool)),
          errlog |-> errlog]

\* A call on the bridge by its owner: what it was given and what it
\* returned (None while it runs; for disconnect, which returns nothing,
\* "returned" or "raised"); the record of an execute_tool call has what
\* call_tool answered as well
BridgeCall(op, tool_calls, ret) ==
    [op |-> op, tool_calls |-> tool_calls, ret |-> ret]

\* connect(): the constructor of the client raises, the client's connect
\* raises, or both return
ConnectOutcomes == {"ok", "init_raises", "connect_raises"}

CallConnect ==
    /\ agent = "bridge" /\ pc = "bridge" /\ api_calls < MaxBridgeCalls
    /\ \E o \in ConnectOutcomes :
         /\ client' = IF o = "init_raises" THEN client ELSE Some("MCPClient")
         /\ errlog' = IF o = "ok" THEN errlog
                      ELSE Append(errlog, Err("connect", ""))
         /\ call' = Some(BridgeCall("connect", <<>>, Some(o = "ok")))
    /\ api_calls' = api_calls + 1
    /\ UNCHANGED <<results, index, generated, agent, schema, pc, idx, off,
                   total_added, now, ticks, access_token, token_expires_at,
                   app_token, created_tables, creation_results,
                   health_status, result, reqs>>

\* disconnect(): the client's disconnect returns or raises
CallDisconnect ==
    /\ agent = "bridge" /\ pc = "bridge" /\ api_calls < MaxBridgeCalls
    /\ \E raises \in BOOLEAN :
         IF client = None
         THEN /\ client' = client
              /\ call' = Some(BridgeCall("disconnect", <<>>,
                                         Some("returned")))
         ELSE /\ client' = IF raises THEN client ELSE None
              /\ call' = Some(BridgeCall("disconnect", <<>>,
                                         IF raises THEN Some("raised")
                                         ELSE Some("returned")))
    /\ api_calls' = api_calls + 1
    /\ UNCHANGED <<results, index, generated, agent, schema, pc, idx, off,
                   total_added, now, ticks, access_token, token_expires_at,
                   app_token, created_tables, creation_results,
                   health_status, result, reqs, errlog>>

CallExecuteTool ==
    /\ agent = "bridge" /\ pc = "bridge" /\ api_calls < MaxBridgeCalls
    /\ \E tool_call \in ToolCalls, answer \in ToolAnswers :
         LET e == ExecuteTool(tool_call, answer) IN
         /\ call' = Some([op |-> "execute_tool", tool_calls |-> <<tool_call>>,
                          ret |-> Some(e.ret),
                          answer |-> IF e.reqs = reqs THEN None
                                     ELSE Some(answer)])
         /\ reqs' = e.reqs
         /\ errlog' = e.errlog
    /\ api_calls' = api_calls + 1
    /\ UNCHANGED <<promptMgmt, agent, schema, pc, idx, off, total_added, now,
                   ticks, access_token, token_expires_at, app_token,
                   created_tables, creation_results, health_status, result>>

RECURSIVE ListsOf(_, _)
\* The lists of at most n elements of S
ListsOf(S, n) ==
    IF n = 0 THEN {<<>>}
    ELSE LET shorter == ListsOf(S, n - 1) IN
         shorter \cup {Append(l, x) : l \in shorter, x \in S}

\* batch_execute(tool_calls) is entered
CallBatchExecute ==
    /\ agent = "bridge" /\ pc = "bridge"
    /\ \E tool_calls \in ListsOf(ToolCalls, MaxBatch) :
         call' = Some(BridgeCall("batch_execute", tool_calls, None))
    /\ results' = <<>>
    /\ idx' = 1
    /\ pc' = "batch"
    /\ api_calls' = api_calls + 1
    /\ UNCHANGED <<client, index, generated, agent, schema, off, total_added,
                   now, ticks, access_token, token_expires_at, app_token,
                   created_tables, creation_results, health_status, result,
                   reqs, errlog>>

\* One round of the loop of batch_execute
BatchExecuteStep ==
    /\ agent = "bridge" /\ pc = "batch"
    /\ idx <= Len(Val(call).tool_calls)
    /\ \E answer \in ToolAnswers :
         LET tool_call == Val(call).tool_calls[idx]
             e == ExecuteTool(tool_call, answer)
         IN  /\ results' = Append(results, e.ret)
             /\ reqs' = e.reqs
             /\ errlog' = e.errlog
             /\ IF ~e.ret.success /\ ShouldStopOnError(tool_call)
                THEN pc' = "batch_end" /\ idx' = idx
                ELSE pc' = pc /\ idx' = idx + 1
    /\ UNCHANGED <<client, index, generated, agent, schema, off, total_added,
                   now, ticks, access_token, token_expires_at, app_token,
                   created_tables, creation_results, health_status, result,
                   api_calls, call>>

\* batch_execute returns results
BatchExecuteReturn ==
    /\ agent = "bridge"
    /\ \/ pc = "batch" /\ idx > Len(Val(call).tool_calls)
       \/ pc = "batch_end"
    /\ call' = Some(BridgeCall("batch_execute", Val(call).tool_calls,
                               Some(results)))
    /\ pc' = "returned"
    /\ UNCHANGED <<promptMgmt, agent, schema, idx, off, total_added, now,
                   ticks, access_token, token_expires_at, app_token,
                   created_tables, creation_results, health_status, result,
                   api_calls, reqs, errlog>>

\* A newly constructed bridge and the calls of its owner
InitBridge ==
    /\ agent = "bridge"
    /\ schema = SourceSchema
    /\ pc = "bridge"
    /\ Constructed

NextBridge ==
    \/ CallConnect
    \/ CallDisconnect
    \/ CallExecuteTool

SpecBridge == InitBridge /\ [][NextBridge]_vars

\* A bridge on which connect() has or has not been called, and one call of
\* batch_execute
InitBridgeBatch ==
    /\ agent = "bridge"
    /\ schema = SourceSchema
    /\ pc = "bridge"
    /\ idx = 1
    /\ off = 0
    /\ total_added = 0
    /\ now = 0
    /\ ticks = 0
    /\ access_token = None
    /\ token_expires_at = None
    /\ app_token = None
    /\ created_tables = EmptyMap
    /\ creation_results = EmptyMap
    /\ health_status = None
    /\ result = None
    /\ api_calls = 0
    /\ call = None
    /\ reqs = <<>>
    /\ errlog = <<>>
    /\ client \in {None, Some("MCPClient")}
    /\ results = <<>>
    /\ index = <<>>
    /\ generated = <<>>

NextBridgeBatch ==
    \/ CallBatchExecute
    \/ BatchExecuteStep
    \/ BatchExecuteReturn

SpecBridgeBatch == InitBridgeBatch /\ [][NextBridgeBatch]_vars

----------------------------------------------------------------------------

(* PromptGenerator (src/prompt-management/tools/prompt-generator.py) *)

\* Categories the command line accepts
Categories == {"analysis", "generation", "planning"}

\* The id "<category>-<number, three digits or more>"
PromptId(category, next_num) == <<category, next_num>>

\* get_next_id
GetNextId(category) ==
    LET category_prompts ==
            {i \in DOMAIN index : index[i].category = category}
    IN  PromptId(category, Cardinality(category_prompts) + 1)

\* The metadata of a prompt, as far as the index makes use of them
PromptData(id, category) == [id |-> id, category |-> category]

\* s without its i-th element
Without(s, i) == SubSeq(s, 1, i - 1) \o SubSeq(s, i + 1, Len(s))

\* generate_prompt(title, category, ...): the caller gets the prompt
GeneratePrompt ==
    /\ agent = "prompts" /\ pc = "prompts"
    /\ Len(index) + Len(generated) < MaxPrompts
    /\ \E category \in Categories :
         generated' = Append(generated,
                             PromptData(GetNextId(category), category))
    /\ UNCHANGED <<client, results, index, agent, schema, pc, idx, off,
                   total_added, now, ticks, access_token, token_expires_at,
                   app_token, created_tables, creation_results,
                   health_status, result, api_calls, call, reqs, errlog>>

\* save_prompt(prompt_data) with one of the prompts the caller holds:
\* update_index appends its entry to the index
SavePrompt ==
    /\ agent = "prompts" /\ pc = "prompts"
    /\ \E i \in DOMAIN generated :
         /\ index' = Append(index, generated[i])
         /\ generated' = Without(generated, i)
    /\ UNCHANGED <<client, results, agent, schema, pc, idx, off,
                   total_added, now, ticks, access_token, token_expires_at,
                   app_token, created_tables, creation_results,
                   health_status, result, api_calls, call, reqs, errlog>>

\* A generator constructed where no index file exists
InitPrompts ==
    /\ agent = "prompts"
    /\ schema = SourceSchema
    /\ pc = "prompts"
    /\ Constructed

NextPrompts ==
    \/ GeneratePrompt
    \/ SavePrompt

SpecPrompts == InitPrompts /\ [][NextPrompts]_vars

----------------------------------------------------------------------------

(* LarkBaseExaminer (src/examine_base.py) *)

\* What the remote answers to a fetch that does not return data
FetchFailures == {"code_err", "exception"}

\* What the remote answers for one table: the number of field items of its
\* schema and the total of its records, each None when the fetch fails
TableAnswers ==
    {[fields |-> f, total |-> t] :
        f \in {None, Some(0), Some(2)}, t \in {None, Some(0), Some(3)}}

\* The base under examination: the answer to the base info fetch, the
\* answer to the table list fetch, and the tables listed when that answer
\* is not a failure
RemoteBases ==
    {[info |-> i, list |-> "ok", tables |-> t] :
        i \in {"ok"} \cup FetchFailures,
        t \in ListsOf(TableAnswers, MaxExamined)}
    \cup {[info |-> i, list |-> l, tables |-> <<>>] :
            i \in {"ok"} \cup FetchFailures, l \in FetchFailures}

\* get_base_info, list_tables: the data, None when the fetch fails
GetBaseInfo(base) ==
    IF base.info \in FetchFailures THEN None ELSE Some("app")
ListTables(base) ==
    IF base.list \in FetchFailures THEN None ELSE Some(base.tables)

\* The table_structure examine_base builds for one table
TableStructure(table) ==
    [fields |-> IF table.fields = None THEN 0 ELSE Val(table.fields),
     record_count |-> IF table.total = None THEN 0 ELSE Val(table.total)]

RECURSIVE ExamineTables(_, _, _)
\* The loop of examine_base over the tables from position i on
ExamineTables(tables, i, base_structure) ==
    IF i > Len(tables) THEN base_structure
    ELSE LET table_structure == TableStructure(tables[i]) IN
         ExamineTables(tables, i + 1,
            [base_structure EXCEPT
               !.tables = Append(@, table_structure),
               !.total_fields = @ + table_structure.fields,
               !.total_records = @ + table_structure.record_count])

\* examine_base: "not tables" holds for None and for the empty list
ExamineBase(base) ==
    IF GetBaseInfo(base) = None
    THEN [status |-> "error", message |-> "Failed to get base info"]
    ELSE IF ListTables(base) \in {None, Some(<<>>)}
    THEN [status |-> "error", message |-> "Failed to get tables"]
    ELSE LET tables == Val(ListTables(base)) IN
         [status |-> "success",
          structure |-> ExamineTables(tables, 1,
                            [tables |-> <<>>, total_tables |-> Len(tables),
                             total_fields |-> 0, total_records |-> 0])]

\* A call of examine_base: the base it examines
ExamineCall(base) == [op |-> "examine_base", base |-> base]

\* examine_base returns
ReturnExamineBase ==
    /\ agent = "examiner" /\ pc = "examine"
    /\ result' = Some(ExamineBase(Val(call).base))
    /\ pc' = "examined"
    /\ UNCHANGED <<promptMgmt, agent, schema, idx, off, total_added, now,
                   ticks, access_token, token_expires_at, app_token,
                   created_tables, creation_results, health_status,
                   api_calls, call, reqs, errlog>>

\* An examiner, constructed with its credential, called on a base
InitExaminer ==
    /\ agent = "examiner"
    /\ schema = SourceSchema
    /\ pc = "examine"
    /\ idx = 1
    /\ off = 0
    /\ total_added = 0
    /\ now = 0
    /\ ticks = 0
    /\ access_token = Some(1)
    /\ token_expires_at = None
    /\ app_token = None
    /\ created_tables = EmptyMap
    /\ creation_results = EmptyMap
    /\ health_status = None
    /\ result = None
    /\ api_calls = 0
    /\ \E base \in RemoteBases : call = Some(ExamineCall(base))
    /\ reqs = <<>>
    /\ errlog = <<>>
    /\ client = <<>>
    /\ results = <<>>
    /\ index = <<>>
    /\ generated = <<>>

NextExaminer == ReturnExamineBase

SpecExaminer == InitExaminer /\ [][NextExaminer]_vars

----------------------------------------------------------------------------

(* Properties *)

Ops(op) == {i \in DOMAIN reqs : reqs[i].op = op}

PhaseRank(op) ==
    CASE op = "create_base" -> 1
      [] op = "create_table" -> 2
      [] op = "add_link" -> 3
      [] op = "add_rollup" -> 4
      [] op = "batch_create" -> 5
      [] op = "get_table" -> 6
      [] OTHER -> 0

Done == pc = "done" /\ result # None
Succeeded == Done /\ Val(result).status = "success"
Failed == Done /\ Val(result).status = "error"

\* The session has left the table loop
PastTables == pc \in {"links", "rollups", "records", "health"} \/ Succeeded

\* The session has left the relation loop, or passed it over
PastLinks == pc \in {"rollups", "records", "health"} \/ Succeeded

\* C1: the requests of a session are issued in phase order: the container
\* before any table; all create-table requests before the first link-field
\* request; link fields before rollup fields, these before the first record
\* insert, and the metadata fetches of the health check after the last
\* record insert.
C1_PhaseOrder ==
    LET sr == SelectSeq(reqs, LAMBDA r : r.ctx = "session" /\ r.op # "auth")
    IN  /\ \A k \in 1..(Len(sr) - 1) :
             PhaseRank(sr[k].op) <= PhaseRank(sr[k + 1].op)
        /\ (sr # <<>> /\ agent # "youtube") => sr[1].op = "create_base"
        /\ \A k \in DOMAIN sr :
             /\ sr[k].op = "create_table" =>
                  sr[k].app = (IF agent = "youtube" THEN ExistingBase
                               ELSE app_token)
             /\ PhaseRank(sr[k].op) > 2 =>
                  Len(SelectSeq(SubSeq(sr, 1, k),
                                LAMBDA r : r.op = "create_table"))
                    = Len(schema.tables)

C1_Witness ==
    /\ agent = "enhanced" /\ Succeeded
    /\ Ops("add_link") # {} /\ Ops("batch_create") # {}
    /\ Ops("get_table") # {}

\* The relations of the schema that resolve in the registry
Resolvable == {k \in DOMAIN schema.relations : Resolves(schema.relations[k])}

\* C2: the link phase executes if and only if the number M of tables
\* created exceeds the minimum-tables threshold: once the session is past
\* the relation step, every resolvable relation has its link-field request
\* when M > MinTables, and when M <= MinTables there is no link-field
\* request and no link error line, and the session still ends with success.
C2_LinkPhaseIffThreshold ==
    agent = "enhanced" =>
      /\ pc = "links" => Cardinality(DOMAIN creation_results) > MinTables
      /\ PastLinks =>
           IF Cardinality(DOMAIN creation_results) > MinTables
           THEN Cardinality(Ops("add_link")) = Cardinality(Resolvable)
           ELSE /\ Ops("add_link") = {}
                /\ Err("link", "") \notin Range(errlog)
      /\ (PastTables /\ Done) => Succeeded

C2_Witness ==
    /\ agent = "enhanced" /\ Succeeded
    /\ schema = SourceSchema
    /\ Cardinality(DOMAIN creation_results) = MinTables
    /\ Resolvable # {}
    /\ Ops("add_link") = {}

Tracked == IF agent = "youtube" THEN created_tables ELSE creation_results

\* The tables whose creation failed: each failure writes an error line
\* naming the table
FailedTables == {e.name : e \in {x \in Range(errlog) : x.what = "table"}}

SessionApp == IF agent = "youtube" THEN ExistingBase ELSE app_token

\* C4: a table's creation failure does not abort the session: the table
\* definitions are attempted one by one in input order, all of them by the
\* end of the table loop, and the tables tracked as created are exactly
\* the attempted ones whose creation did not fail, under the identifier
\* the service returned.
C4_TableFailureIsLocal ==
    LET tr == SelectSeq(reqs, LAMBDA r : r.op = "create_table") IN
    /\ Len(tr) <= Len(schema.tables)
    /\ \A k \in DOMAIN tr : tr[k].name = schema.tables[k]
    /\ pc = "tables" => Len(tr) = idx - 1
    /\ (PastTables \/ Succeeded) => Len(tr) = Len(schema.tables)
    /\ FailedTables # {} => ~Failed
    /\ DOMAIN Tracked = {tr[k].name : k \in DOMAIN tr} \ FailedTables
    /\ \A n \in DOMAIN Tracked : Tracked[n] = TableId(SessionApp, n)
    /\ agent = "enhanced" => created_tables = creation_results

C4_Witness ==
    /\ agent = "enhanced" /\ Succeeded
    /\ schema.tables[1] \in FailedTables
    /\ schema.tables[2] \in DOMAIN Tracked
    /\ schema.tables[3] \in FailedTables

BaseFailed == Err("base", "") \in Range(errlog)

\* C5: when the container creation fails the session aborts: the result
\* has status error, the failed create-container request is the last
\* request, and there is no create-table, link-field, rollup-field,
\* record-insert or metadata-fetch request.
C5_ContainerFailureAborts ==
    BaseFailed =>
      /\ Failed
      /\ reqs[Len(reqs)].op = "create_base"
      /\ \A i \in DOMAIN reqs : PhaseRank(reqs[i].op) <= 1

C5_Witness == agent = "enhanced" /\ BaseFailed /\ Failed

\* A get_access_token call of the session returned None: it logged an
\* error, or it stored the missing token of the response
AuthFailed ==
    \/ Err("token", "") \in Range(errlog)
    \/ access_token = None /\ Ops("auth") # {}

\* C6: when the credential cannot be obtained the session aborts with
\* status error and the failed issuance request is the last request; every
\* provisioning request carries a token, and a create-container request
\* carries the token of the latest issuance request before it.
C6_AuthFailureAborts ==
    /\ AuthFailed => Failed /\ reqs[Len(reqs)].op = "auth"
    /\ \A i \in DOMAIN reqs : reqs[i].op # "auth" => reqs[i].tok # None
    /\ \A i \in Ops("create_base") :
         reqs[i].tok = Some(Cardinality({j \in Ops("auth") : j < i}))

C6_Witness ==
    /\ agent = "enhanced" /\ Failed /\ AuthFailed
    /\ Cardinality(Ops("auth")) = 2
    /\ access_token # None

\* C7: the result has status error exactly when authentication or the
\* container creation failed, and status success otherwise, whatever
\* happened to tables, links, records and health fetches; a fatal failure
\* ends the session at once.
C7_StatusErrorIffFatal ==
    /\ Done => /\ Val(result).status \in {"success", "error"}
               /\ Val(result).status = "error" <=> (AuthFailed \/ BaseFailed)
    /\ (AuthFailed \/ BaseFailed) => Failed

C7_Witness ==
    /\ agent = "enhanced" /\ Succeeded
    /\ schema = SourceSchema
    /\ FailedTables = Range(schema.tables)

\* C8: a link-field request is sent only for a relation whose source and
\* target names are both in the registry, a rollup-field request only for
\* a rollup whose target name is, and the identifiers sent are the ones
\* the registry holds for those names.
C8_RequestsResolveInRegistry ==
    /\ \A i \in Ops("add_link") :
         \E k \in DOMAIN schema.relations :
           LET rel == schema.relations[k] IN
           /\ reqs[i].name = rel.field_name
           /\ rel.source_table \in DOMAIN created_tables
           /\ rel.target_table \in DOMAIN created_tables
           /\ reqs[i].table = Some(created_tables[rel.source_table])
           /\ reqs[i].target = Some(created_tables[rel.target_table])
    /\ \A i \in Ops("add_rollup") :
         \E cfg \in RollupConfigs :
           /\ reqs[i].name = cfg.field_name
           /\ cfg.target_table \in DOMAIN created_tables
           /\ reqs[i].target = Some(created_tables[cfg.target_table])

C8_Witness ==
    /\ agent = "enhanced"
    /\ Ops("add_link") # {} /\ Ops("add_rollup") # {}
    /\ Cardinality(Resolvable) < Len(schema.relations)
    /\ Cardinality(Ops("add_link")) = Cardinality(Resolvable)

\* The failures list of the result ("failures" is no key of the dict the
\* session returns)
ResultFailures ==
    IF Done /\ "failures" \in DOMAIN Val(result) THEN Val(result).failures
    ELSE <<>>

Failure(kind, name) == [kind |-> kind, name |-> name]

\* C9: a link definition naming a table that is not in the registry is
\* recorded as a DependencyMissingError in the session result.
C9_MissingDependencyRecorded ==
    ( /\ agent = "enhanced" /\ Succeeded
      /\ Cardinality(DOMAIN creation_results) > MinTables )
    => \A k \in DOMAIN schema.relations :
         ~Resolves(schema.relations[k]) =>
           Failure("DependencyMissingError", schema.relations[k].field_name)
             \in Range(ResultFailures)

\* C10: in a session with 4 tables where table 2 fails to create, the
\* status is success and the failures list of the result holds exactly
\* one TableError, naming table 2.
C10_ScenarioB ==
    ( /\ agent = "enhanced" /\ schema = SchemaB /\ Done
      /\ DOMAIN creation_results = Range(schema.tables) \ {schema.tables[2]} )
    => /\ Val(result).status = "success"
       /\ SelectSeq(ResultFailures, LAMBDA f : f.kind = "TableError")
            = << Failure("TableError", schema.tables[2]) >>

----------------------------------------------------------------------------
(* The credential cache *)

\* A credential is cached and the clock is before its expiry minus the
\* safety margin
Fresh ==
    /\ access_token # None
    /\ token_expires_at # None
    /\ now < Val(token_expires_at) - MarginSeconds

\* The step is a call of get_access_token by its owner
OwnerGetsToken ==
    /\ api_calls' = api_calls + 1
    /\ Val(call').op = "get_access_token"

\* The step is a call of get_access_token without force_refresh: step 1 of
\* the session, the call at the head of create_base_app, or a call by the
\* owner
GetsTokenUnforced ==
    \/ pc = "auth" /\ pc' # "auth"
    \/ pc = "base" /\ pc' # "base"
    \/ OwnerGetsToken /\ ~Val(call').force

IssuanceCalls == Count(reqs, "auth")

\* C11: a call of get_access_token without force_refresh, made while a
\* credential is cached and the clock is before its expiry minus the
\* 5-minute margin, issues no credential-issuance request, leaves the cache
\* as it is and returns the cached credential (to the owner, or into the
\* header of the create-container request).
C11_CachedTokenReused ==
    [][(GetsTokenUnforced /\ Fresh) =>
         /\ Count(reqs', "auth") = IssuanceCalls
         /\ access_token' = access_token
         /\ token_expires_at' = token_expires_at
         /\ OwnerGetsToken => Val(call').ret = Some(access_token)
         /\ pc = "base" => /\ Len(reqs') = Len(reqs) + 1
                           /\ reqs'[Len(reqs')].op = "create_base"
                           /\ reqs'[Len(reqs')].tok = access_token]_vars

\* The owner asked for the credential, unforced, some time after it was
\* fetched and before the boundary, and got the cached one
C11_Witness ==
    /\ call # None
    /\ Val(call).op = "get_access_token" /\ ~Val(call).force
    /\ Val(call).ret = Some(access_token)
    /\ access_token = Some(1) /\ IssuanceCalls = 1
    /\ now > 0 /\ Fresh

\* C12: a call of get_access_token made when no credential is cached or the
\* clock is at or after expiry minus margin issues exactly one
\* credential-issuance request; no step of a session or call issues two; and
\* once a refresh has left a fresh credential in the cache, a later call
\* before the new boundary issues none.
C12_ExactlyOneRefresh ==
    [][/\ Count(reqs', "auth") <= IssuanceCalls + 1
       /\ (GetsTokenUnforced /\ ~Fresh) =>
              Count(reqs', "auth") = IssuanceCalls + 1
       /\ (OwnerGetsToken /\ Val(call').force) =>
              Count(reqs', "auth") = IssuanceCalls + 1
       /\ (GetsTokenUnforced /\ Fresh /\ IssuanceCalls > 1) =>
              Count(reqs', "auth") = IssuanceCalls]_vars

\* The credential fetched at time 0 was refreshed once at the boundary by
\* create_base_app, and a later call of the owner got the refreshed one
\* without a further request
C12_Witness ==
    /\ IssuanceCalls = 2
    /\ access_token = Some(2) /\ Fresh
    /\ now >= DefaultExpire - MarginSeconds
    /\ app_token # None
    /\ call # None
    /\ Val(call).op = "get_access_token" /\ ~Val(call).force
    /\ Val(call).ret = Some(access_token)

ProvisioningOps ==
    {"create_table", "add_link", "add_rollup", "batch_create", "get_table"}

\* The step sends a provisioning request
SendsProvisioning ==
    /\ Len(reqs') > Len(reqs)
    /\ reqs'[Len(reqs')].op \in ProvisioningOps

\* The cached credential is the one fetched at time 0 with a lifetime of
\* 7200 s: it was fresh when it was fetched
FetchedFresh ==
    /\ IssuanceCalls = 1
    /\ access_token = Some(1)
    /\ token_expires_at = Some(DefaultExpire)

\* C13: no provisioning request (create table, add link or rollup field,
\* batch insert, metadata fetch) carries a credential that is within the
\* 5-minute margin of its expiry or past it.  Stated for a credential that
\* was fresh when it was fetched.
C13_NoStaleCredential ==
    [][(SendsProvisioning /\ FetchedFresh) =>
         /\ Fresh
         /\ reqs'[Len(reqs')].tok = access_token]_vars

\* The step is a call of get_access_token that posted an issuance request
\* and returned None: the owner got None, step 1 ended the session, or
\* create_base_app returned before posting its own request
IssuanceFailed ==
    /\ GetsTokenUnforced \/ OwnerGetsToken
    /\ Count(reqs', "auth") = IssuanceCalls + 1
    /\ OwnerGetsToken => Val(call').ret = Some(None)
    /\ pc = "auth" => pc' = "done"
    /\ pc = "base" => reqs'[Len(reqs')].op = "auth"

\* C14: a call of get_access_token whose issuance fails (transport error,
\* code != 0, missing token, non-numeric expire) returns None and leaves
\* the cached token and the cached expiry exactly as they were.
C14_FailureKeepsCache ==
    [][IssuanceFailed =>
         /\ access_token' = access_token
         /\ token_expires_at' = token_expires_at]_vars

\* C15: the cached token and the cached expiry are replaced together: in
\* every reachable state both are unset or both are set.
C15_CacheReplacedWholesale ==
    (access_token = None) <=> (token_expires_at = None)

----------------------------------------------------------------------------
(* The batch record loader *)

\* The owner's call of batch_add_records has returned
Returned == pc = "returned"

\* ceil(n / BatchSize)
ChunksOf(n) == (n + BatchSize - 1) \div BatchSize

\* The chunk requests of the call
ChunkRequests == {i \in Ops("batch_create") : reqs[i].ctx = "api"}

\* C16: a call of batch_add_records with R records has issued exactly
\* ceil(R / 100) chunk requests when it returns, for every R (0 and the
\* multiples of 100 included).
C16_ChunkRequestCount ==
    Returned =>
        /\ Cardinality(ChunkRequests) = ChunksOf(Len(Val(call).records))
        /\ Len(Val(call).sent) = ChunksOf(Len(Val(call).records))

RECURSIVE Concat(_)
Concat(ss) == IF ss = <<>> THEN <<>> ELSE Head(ss) \o Concat(Tail(ss))

\* C17: when a call of batch_add_records returns, every chunk it posted has
\* at most 100 records, every chunk but the last exactly 100, no record was
\* posted twice, and the chunks concatenated in the order they were posted
\* are the records it was given.
C17_ChunksPreserveOrder ==
    Returned =>
        LET sent == Val(call).sent
            all == Concat(sent)
        IN  /\ \A j \in DOMAIN sent : Len(sent[j]) <= BatchSize
            /\ \A j \in 1..(Len(sent) - 1) : Len(sent[j]) = BatchSize
            /\ Cardinality(Range(all)) = Len(all)
            /\ all = Val(call).records

\* The call logged a failed chunk
ChunkFailed == \E i \in DOMAIN errlog : errlog[i].what = "batch"

\* The chunks for which the call wrote the info line "Batch k: Added ..."
AddedChunks == {Val(call).added[j].batch : j \in DOMAIN Val(call).added}

\* C18: batch_add_records has no fail-fast mode, so it keeps posting the
\* remaining chunks after a chunk fails: called with 250 records, chunk 1
\* answered with code 0 and chunk 2 with a failure, it has posted chunk 3
\* as well when it returns.
C18_ContinuesAfterFailure ==
    (/\ Returned
     /\ Len(Val(call).records) = 250
     /\ ChunkFailed
     /\ 1 \in AddedChunks /\ 2 \notin AddedChunks) =>
        /\ Len(Val(call).sent) = 3
        /\ Len(Val(call).sent[3]) = 50

\* C19: when a chunk failed after an earlier chunk succeeded, the value
\* batch_add_records returns is not a bare boolean: it tells the number of
\* records committed and the chunk that failed.
C19_PartialSuccessSurfaced ==
    (Returned /\ ChunkFailed /\ AddedChunks # {}) =>
        Val(Val(call).ret) \notin BOOLEAN

RECURSIVE SumAdded(_)
SumAdded(lines) ==
    IF lines = <<>> THEN 0 ELSE Head(lines).added + SumAdded(Tail(lines))

\* C20: when every chunk of a call of batch_add_records succeeded, the total
\* it reports ("Total records added") is the sum of the record counts of
\* the answers of the remote service, one per chunk.
C20_TotalIsSumOfCounts ==
    (Returned /\ ~ChunkFailed) =>
        /\ Val(call).ret = Some(TRUE)
        /\ Len(Val(call).added) = ChunksOf(Len(Val(call).records))
        /\ Val(call).total = Some(SumAdded(Val(call).added))

\* Three chunks succeeded and the remote service returned fewer records
\* than it was sent: the reported total is below the number of records
C20_Witness ==
    /\ Returned /\ ~ChunkFailed
    /\ Len(Val(call).records) = 250
    /\ Len(Val(call).added) = 3
    /\ Val(call).total = Some(248)

----------------------------------------------------------------------------
(* The health report *)

\* The report has been returned to the session
Reported == Succeeded /\ agent = "enhanced"

\* The tables the report classifies as status
Classified(hs, status) == {n \in DOMAIN hs.tables : hs.tables[n] = status}

\* C21: the overall status of the health report is healthy if and only if
\* every table in it is classified healthy, and degraded otherwise (a
\* report without tables is healthy); once a table has been classified
\* error the overall status is never healthy again, and no classification
\* is taken back.
C21_OverallStatusIffAllHealthy ==
    /\ [](LET hs == CurrentHealth IN
          /\ hs.overall_status \in {"healthy", "degraded"}
          /\ hs.overall_status = "healthy"
               <=> Classified(hs, "error") = {}
          /\ DOMAIN hs.tables
               = Classified(hs, "healthy") \cup Classified(hs, "error")
          /\ Reported => Val(result).health_status = hs
          /\ (Reported /\ DOMAIN created_tables = {})
               => hs.overall_status = "healthy")
    /\ [][health_status # None =>
            /\ health_status' # None
            /\ Classified(Val(health_status), "error")
                 \subseteq Classified(Val(health_status'), "error")
            /\ Val(health_status).overall_status = "degraded"
                 => Val(health_status').overall_status = "degraded"]_vars

\* A table fetched after a failed one is healthy and the report stays
\* degraded
C21_Witness ==
    /\ Reported
    /\ Cardinality(Classified(CurrentHealth, "error")) = 1
    /\ RegistryOrder[1] \in Classified(CurrentHealth, "error")
    /\ Cardinality(Classified(CurrentHealth, "healthy")) >= 2
    /\ CurrentHealth.overall_status = "degraded"

\* The metadata fetches, in the order they were issued
Fetches == SelectSeq(reqs, LAMBDA r : r.op = "get_table")

\* C22: the health check is isolated per table: each pass of its loop
\* fetches the metadata of the next table of the registry and writes the
\* entry of that table only, healthy or error, leaving the entries of the
\* tables fetched before as they are; a failed fetch does not end the
\* loop, so the returned report has exactly one entry for every table of
\* the registry, and with three tables and one of them classified error
\* the overall status is degraded.
C22_HealthCheckPerTable ==
    /\ [](agent = "enhanced" =>
          /\ pc = "health" =>
               /\ Len(Fetches) = idx - 1
               /\ DOMAIN CurrentHealth.tables
                    = {RegistryOrder[k] : k \in 1..(idx - 1)}
          /\ Reported =>
               /\ DOMAIN CurrentHealth.tables = DOMAIN created_tables
               /\ Len(Fetches) = Cardinality(DOMAIN created_tables)
               /\ \A k \in DOMAIN Fetches :
                    Fetches[k].table = Some(created_tables[RegistryOrder[k]])
               /\ (/\ Cardinality(DOMAIN created_tables) = 3
                   /\ Cardinality(Classified(CurrentHealth, "error")) = 1)
                    => /\ Cardinality(Classified(CurrentHealth, "healthy")) = 2
                       /\ CurrentHealth.overall_status = "degraded")
    /\ [][(pc = "health" /\ agent = "enhanced" /\ reqs' # reqs) =>
            LET name == RegistryOrder[idx]
                old == CurrentHealth.tables
                new == Val(health_status').tables
            IN  /\ name \notin DOMAIN old
                /\ DOMAIN new = DOMAIN old \cup {name}
                /\ new[name] \in {"healthy", "error"}
                /\ \A n \in DOMAIN old : new[n] = old[n]]_vars

\* Three tables in the registry, the second fetch failed, the first and
\* the third succeeded
C22_Witness ==
    /\ Reported
    /\ Len(RegistryOrder) = 3
    /\ Classified(CurrentHealth, "error") = {RegistryOrder[2]}
    /\ Classified(CurrentHealth, "healthy")
         = {RegistryOrder[1], RegistryOrder[3]}
    /\ CurrentHealth.overall_status = "degraded"

\* C23: the health report of a session's result covers exactly the tables
\* the session created, the keys of the tables map of the result, also
\* when the agent object has run an earlier session.
C23_ReportCoversSessionTables ==
    Reported =>
        DOMAIN Val(result).health_status.tables = DOMAIN Val(result).tables

----------------------------------------------------------------------------
(* The records phase *)

\* The record-insert requests, in the order they were issued
Inserts == SelectSeq(reqs, LAMBDA r : r.op \in {"batch_create", "add_record"})

\* The names -> identifiers map the records phase looks tables up in
SeedRegistry ==
    IF agent = "tool" THEN (IF result = None THEN EmptyMap
                            ELSE Val(result).tables)
    ELSE created_tables

\* The seed batches whose table is in that map, in definition order
SeedsPresent ==
    SelectSeq(schema.seeds, LAMBDA sd : sd.table \in DOMAIN SeedRegistry)

\* The number of insert requests a seed batch takes: one chunk for the
\* batch of the enhanced agent, one request per record for the tool agent
InsertsOf(sd) == IF agent = "tool" THEN sd.n ELSE ChunksOf(sd.n)

\* The records phase is over
PastRecords ==
    \/ agent = "enhanced" /\ (pc = "health" \/ Succeeded)
    \/ agent = "tool" /\ pc = "ready"

\* C24: a record-insert request is issued for a seed batch only if the
\* name of its table is in the registry, and it is sent to the identifier
\* the registry holds for that name; a seed batch whose table is missing
\* is passed over, and every other seed batch is attempted, in definition
\* order, whether or not an earlier insert failed.
C24_SeedsOnlyForRegisteredTables ==
    LET ins == Inserts
        sp == SeedsPresent
        target == [k \in DOMAIN sp |-> Some(SeedRegistry[sp[k].table])]
    IN  /\ \A i \in DOMAIN ins :
             \E k \in DOMAIN sp :
               /\ ins[i].table = target[k]
               /\ ins[i].n = (IF agent = "tool" THEN 1 ELSE sp[k].n)
        /\ PastRecords =>
             /\ \A k \in DOMAIN sp :
                  Cardinality({i \in DOMAIN ins : ins[i].table = target[k]})
                    = InsertsOf(sp[k])
             /\ \A i \in 1..(Len(ins) - 1) :
                  \E k, l \in DOMAIN sp :
                    /\ k <= l
                    /\ ins[i].table = target[k]
                    /\ ins[i + 1].table = target[l]

\* The table of the first seed batch is missing, the insert of the second
\* seed batch failed and the third seed batch was attempted
C24_Witness ==
    /\ agent = "enhanced" /\ schema = SourceSchema /\ Reported
    /\ schema.seeds[1].table \notin DOMAIN created_tables
    /\ Len(SeedsPresent) = 2
    /\ Len(Inserts) = 2
    /\ Cardinality({i \in DOMAIN errlog : errlog[i].what = "batch"}) = 2

----------------------------------------------------------------------------
(* Requests per resource *)

\* The create-table requests that carry table name
CreatesOf(name) == {i \in Ops("create_table") : reqs[i].name = name}

\* C25: a create request is never repeated within a session: there is at
\* most one create-container request, and at most one create-table request
\* for each table definition, whether the request succeeded or failed;
\* once the table loop is over each table definition has had exactly one.
C25_CreateRequestedOnce ==
    /\ Cardinality(Ops("create_base")) <= 1
    /\ BaseFailed => Cardinality(Ops("create_base")) = 1
    /\ \A k \in DOMAIN schema.tables :
         /\ Cardinality(CreatesOf(schema.tables[k])) <= 1
         /\ (PastTables \/ pc \in {"sample", "ready"})
              => Cardinality(CreatesOf(schema.tables[k])) = 1
    /\ Cardinality(Ops("create_table")) <= Len(schema.tables)

\* The session went on after the creation of two tables failed, and no
\* create request was sent twice
C25_Witness ==
    /\ agent = "enhanced" /\ Succeeded
    /\ Cardinality(FailedTables) = 2
    /\ Cardinality(Ops("create_table")) = Len(schema.tables)
    /\ Cardinality(Ops("create_base")) = 1

----------------------------------------------------------------------------
(* The registry *)

\* This step sent requests, the last of them for op
Sends(op) ==
    /\ Len(reqs') > Len(reqs)
    /\ reqs'[Len(reqs')].op = op

\* What a step may do to the registry
RegistryStep ==
    /\ created_tables' # created_tables =>
         /\ Sends("create_table")
         /\ Len(reqs') = Len(reqs) + 1
         /\ errlog' = errlog
         /\ LET r == reqs'[Len(reqs')] IN
            created_tables'
              = Put(created_tables, r.name, TableId(r.app, r.name))
    /\ (Sends("create_table") /\ errlog' # errlog)
         => created_tables' = created_tables
    /\ \A op \in {"add_link", "add_rollup", "batch_create", "get_table"} :
         Sends(op) => created_tables' = created_tables
    /\ DOMAIN created_tables \subseteq DOMAIN created_tables'

----------------------------------------------------------------------------
(* The relation loop *)

\* The link-field requests, in the order they were issued
Links == SelectSeq(reqs, LAMBDA r : r.op = "add_link")

\* The relations among the first n definitions whose source and target
\* resolve, in definition order
ResolvedUpTo(n) == SelectSeq(SubSeq(schema.relations, 1, n), Resolves)

\* The failed add_link_field calls
LinkFailures == {i \in DOMAIN errlog : errlog[i].what = "link"}

\* C27: a failure of add_link_field is caught at that call: the relation
\* loop goes on, so that the link-field requests are those of the
\* relations passed so far whose source and target resolve, one each and
\* in definition order, however many of them failed.
C27_LinkFailureIsLocal ==
    agent = "enhanced" =>
      LET n == IF pc = "links" THEN idx - 1
               ELSE IF PastLinks /\ RelationsEnabled
                    THEN Len(schema.relations) ELSE 0
          due == ResolvedUpTo(n)
          ln == Links
      IN  /\ Len(ln) = Len(due)
          /\ \A k \in DOMAIN ln :
               /\ ln[k].name = due[k].field_name
               /\ ln[k].table = Get(created_tables, due[k].source_table)
               /\ ln[k].target = Get(created_tables, due[k].target_table)
          /\ Cardinality(LinkFailures) <= Len(ln)
          /\ LinkFailures # {} => ~Failed

\* Every add_link_field call of the source schema failed, and all six
\* link definitions were attempted
C27_Witness ==
    /\ agent = "enhanced" /\ schema = SourceSchema /\ Reported
    /\ Len(Links) = Len(schema.relations)
    /\ Cardinality(LinkFailures) = Len(schema.relations)

----------------------------------------------------------------------------
(* The health monitor *)

\* A step of monitor_system_health
HealthStep == agent = "enhanced" /\ pc = "health"

\* What a step of the health check may do: it sends at most one request,
\* a metadata fetch with the cached credential, and writes the report only
HealthStepReadsOnly ==
    HealthStep =>
        /\ UNCHANGED <<created_tables, creation_results, access_token,
                       token_expires_at, app_token, errlog>>
        /\ \/ reqs' = reqs
           \/ /\ Len(reqs') = Len(reqs) + 1
              /\ SubSeq(reqs', 1, Len(reqs)) = reqs
              /\ reqs'[Len(reqs')].op = "get_table"
              /\ reqs'[Len(reqs')].tok = access_token
              /\ reqs'[Len(reqs')].app = app_token

\* C28: the health check has no side effects: each of its steps sends
\* nothing but a metadata fetch and leaves the registry and the cached
\* credential unchanged, and when the report is returned one metadata
\* fetch has been sent for each table of the registry and the requests
\* before the first fetch are the ones sent before the check began.
C28_HealthCheckReadsOnly ==
    /\ [][HealthStepReadsOnly]_vars
    /\ [](Reported =>
            /\ \A n \in DOMAIN created_tables :
                 Cardinality({i \in Ops("get_table") :
                                reqs[i].table = Some(created_tables[n])}) = 1
            /\ Cardinality(Ops("get_table"))
                 = Cardinality(DOMAIN created_tables)
            /\ \A i \in Ops("get_table") : \A j \in DOMAIN reqs :
                 (j > i /\ reqs[j].ctx = "session")
                    => reqs[j].op = "get_table")

\* A report over six tables, three of them failed, returned with the
\* registry and the credential as the check found them
C28_Witness ==
    /\ Reported
    /\ Cardinality(DOMAIN created_tables) = 6
    /\ Cardinality(Ops("get_table")) = 6
    /\ Cardinality(Classified(CurrentHealth, "error")) = 3
    /\ access_token # None

----------------------------------------------------------------------------
(* Field type codes on the wire *)

\* The name translator fn knows the enum member number k by
TypeName(fn, k) ==
    IF fn = "convert_field_type" THEN ConvertKeys[k] ELSE FieldTypeMembers[k]

\* C29: each of the 15 field types, given as the enum member or by the
\* name the translator knows it by, is translated to its code of the
\* enumeration (Text 1, Number 2, SingleSelect 3, MultiSelect 4, DateTime
\* 5, Checkbox 7, User 11, Phone 13, URL 15, Attachment 17, Link 18,
\* Lookup 19, Rollup 20, Formula 21, AutoNumber 22) by FieldType, by
\* convert_field_type and by get_field_type_code, and no translator gives
\* two field types the same code.
C29_CodesFollowEnumeration ==
    pc = "coded" =>
      LET fn == Val(call).op IN
      \A k \in DOMAIN FieldTypeMembers :
        Val(call).field_type = TypeName(fn, k) =>
          /\ Val(call).ret = Some(FieldType(FieldTypeMembers[k]))
          /\ \A l \in DOMAIN FieldTypeMembers :
               Some(TypeCode(fn, TypeName(fn, l))) = Val(call).ret => l = k

----------------------------------------------------------------------------
(* One request at a time *)

\* The requests a step sends, in the order it sends them
SentByStep == SubSeq(reqs', Len(reqs) + 1, Len(reqs'))

\* A step of a session is one blocking call of requests.post or
\* requests.get together with its response, or two such calls in a row
\* when create_base_app fetches the credential first; the second call is
\* made only when the first has returned a token, and carries that token
OneRequestPerStep ==
    /\ Len(reqs') >= Len(reqs)
    /\ SubSeq(reqs', 1, Len(reqs)) = reqs
    /\ Len(SentByStep) <= 2
    /\ Len(SentByStep) = 2 =>
         /\ SentByStep[1].op = "auth"
         /\ SentByStep[2].op = "create_base"
         /\ access_token' = Some(Count(reqs', "auth"))
         /\ SentByStep[2].tok = access_token'

\* C30: the remote requests of a session are issued one after the other:
\* no step of a session sends a request before the previous request has
\* been answered, so that a step sends one request, or a credential fetch
\* and, after its answer, the create-container request; the log of
\* requests only grows at its end.
C30_OneRequestAtATime == [][OneRequestPerStep]_vars

\* A session in which create_base_app fetched the credential again and
\* then created the container, and which went on to its end
C30_Witness ==
    /\ agent = "enhanced" /\ Reported
    /\ Len(reqs) >= 3
    /\ reqs[1].op = "auth" /\ reqs[2].op = "auth"
    /\ reqs[3].op = "create_base"
    /\ reqs[3].tok = Some(2)
    /\ Ops("add_link") # {} /\ Ops("batch_create") # {}

----------------------------------------------------------------------------
(* Cancellation *)

\* The deadline of the caller, taken to fall on the first advance of the
\* clock: it has fired once the clock has advanced
DeadlineFired == ticks >= 1

\* C31: once the deadline of the caller has fired the session issues no
\* further remote request, and the result it returns has the status
\* cancelled and carries the registry as far as it was filled.
C31_CancelledStopsSession ==
    /\ [][(DeadlineFired /\ pc # "done") => reqs' = reqs]_vars
    /\ []((Done /\ DeadlineFired) =>
            /\ Val(result).status = "cancelled"
            /\ Val(result).tables = creation_results)

----------------------------------------------------------------------------
(* The stored expiry *)

\* The step is a call of get_access_token by its owner that posted an
\* issuance request and returned the credential of the answer
OwnerIssued ==
    /\ OwnerGetsToken
    /\ Val(call').answer # None
    /\ Val(call').ret # Some(None)

\* The lifetime an answer stands for
Lifetime(answer) ==
    IF answer.expire = None THEN DefaultExpire ELSE Val(answer.expire)

\* C35: a call of get_access_token that issues a credential stores as its
\* expiry the time of the call plus the lifetime the answer carries, 7200 s
\* when the answer carries none; a credential issued with a lifetime of at
\* most the 5-minute margin is not valid for the cache when the call returns,
\* and the clock never goes back, so that no later call is served by it.
C35_ExpiryFromCallStart ==
    [][/\ now' >= now
       /\ OwnerIssued =>
            LET a == Val(Val(call').answer) IN
            /\ token_expires_at' = Some(now + Lifetime(a))
            /\ access_token' = Val(Val(call').ret)
            /\ Lifetime(a) <= MarginSeconds => ~TokenValid']_vars

\* After the clock has advanced the owner forced a refresh, the answer
\* carried a lifetime of 300 s, and the credential it got is in the cache
\* with an expiry 300 s after the call, where the cache test rejects it
C35_Witness ==
    /\ call # None
    /\ Val(call).op = "get_access_token" /\ Val(call).force
    /\ Val(call).answer = Some([kind |-> "ok", expire |-> Some(300)])
    /\ Val(call).ret = Some(access_token)
    /\ access_token # None
    /\ now > 0
    /\ token_expires_at = Some(now + 300)
    /\ ~TokenValid

----------------------------------------------------------------------------
(* batch_execute *)

\* A batch_execute call is running or has returned
InBatch ==
    /\ call # None /\ Val(call).op = "batch_execute"
    /\ pc \in {"batch", "batch_end", "returned"}

\* The result at position i is a failure of a critical tool
FailedCritical(i) ==
    /\ ~results[i].success
    /\ Val(call).tool_calls[i].tool \in CriticalTools

\* The positions of the list whose call reached call_tool
Invoked ==
    {i \in DOMAIN results :
        client # None /\ Val(call).tool_calls[i].parameters # None}

\* C32: batch_execute holds one result per executed call, the executed calls
\* are a prefix of the list taken in list order and the tools were invoked
\* in that order; a failed call of a critical tool is the last result, and
\* when the call returns it returns these results, which cover the whole
\* list unless the last of them is a failed call of a critical tool.
C32_BatchRunsPrefixInOrder ==
    InBatch =>
        LET tool_calls == Val(call).tool_calls IN
        /\ Len(results) <= Len(tool_calls)
        /\ \A i \in DOMAIN results :
              /\ results[i].tool_name = tool_calls[i].tool
              /\ FailedCritical(i) => i = Len(results)
        /\ Len(reqs) = Cardinality(Invoked)
        /\ \A k \in DOMAIN reqs :
              \E i \in Invoked :
                 /\ Cardinality({j \in Invoked : j <= i}) = k
                 /\ reqs[k].name = tool_calls[i].tool
        /\ pc = "batch" => Len(results) = idx - 1
        /\ pc = "batch_end" =>
              Len(results) = idx /\ FailedCritical(Len(results))
        /\ pc = "returned" =>
              /\ Val(call).ret = Some(results)
              /\ \/ Len(results) = Len(tool_calls)
                 \/ Len(results) >= 1 /\ FailedCritical(Len(results))

\* A batch of three calls returned two results: the first call, of a tool
\* that is not critical, failed and the batch went on; the second, of a
\* critical tool, failed and the third was not executed
C32_Witness ==
    /\ InBatch /\ pc = "returned"
    /\ Len(Val(call).tool_calls) = 3
    /\ Len(results) = 2
    /\ ~results[1].success
    /\ Val(call).tool_calls[1].tool \notin CriticalTools
    /\ FailedCritical(2)
    /\ Len(reqs) = 2

----------------------------------------------------------------------------
(* The client of the bridge *)

\* The step is a call of op on the bridge by its owner
BridgeStep(op) ==
    /\ api_calls' = api_calls + 1
    /\ Val(call').op = op

\* C33: a connect() that returns False leaves the client unset, and a
\* following execute_tool calls no tool and returns the 'MCP client not
\* connected' failure; the client becomes set only by a connect() that
\* returns True, and is unset after disconnect() has returned.
C33_ClientSetOnlyIfConnected ==
    [][/\ (BridgeStep("connect") /\ Val(call').ret = Some(FALSE)) =>
             client' = None
       /\ (client = None /\ client' # None) =>
             BridgeStep("connect") /\ Val(call').ret = Some(TRUE)
       /\ (BridgeStep("disconnect") /\ Val(call').ret = Some("returned")) =>
             client' = None
       /\ (BridgeStep("execute_tool") /\ call # None
           /\ Val(call).op = "connect" /\ Val(call).ret = Some(FALSE)) =>
             /\ reqs' = reqs
             /\ Val(Val(call').ret).error = Some("MCP client not connected")
      ]_vars

\* C34: execute_tool returns an MCPResult naming the tool of the call; with
\* no client the result is a failure and no tool is called; with a client
\* the result is a success carrying the data of the tool exactly when
\* preprocessing and call_tool raised nothing (the parameters are a dict and
\* call_tool answered with data, whatever the data say), and a failure
\* carrying the exception text, with one error line written, otherwise.
C34_ExecuteToolAlwaysReturns ==
    [][BridgeStep("execute_tool") =>
         LET tool_call == Val(call').tool_calls[1]
             r == Val(Val(call').ret)
             called == Len(reqs') = Len(reqs) + 1
             raised == Len(errlog') = Len(errlog) + 1
         IN  /\ Val(call').ret # None
             /\ r.tool_name = tool_call.tool
             /\ called \/ reqs' = reqs
             /\ raised \/ errlog' = errlog
             /\ called => reqs'[Len(reqs')].name = tool_call.tool
             /\ client = None =>
                  /\ ~r.success /\ ~called /\ ~raised
                  /\ r.error = Some("MCP client not connected")
             /\ called <=> Val(call').answer # None
             /\ client # None =>
                  /\ r.success <=> /\ tool_call.parameters # None
                                   /\ Val(call').answer # Some("exception")
                  /\ r.success <=> (called /\ ~raised)
                  /\ r.success => r.data = Val(call').answer /\ r.error = None
                  /\ ~r.success => r.data = None /\ r.error # None
                  /\ tool_call.parameters = None => ~called /\ raised
             /\ client' = client]_vars

\* With a client, the owner called execute_tool and call_tool raised: the
\* tool was called and the result is a failure with the exception text
C34_Witness ==
    /\ client # None
    /\ call # None /\ Val(call).op = "execute_tool"
    /\ ~Val(Val(call).ret).success
    /\ Val(Val(call).ret).error = Some("tool raised")
    /\ Val(call).answer = Some("exception")
    /\ Len(reqs) = 1 /\ reqs[1].name = Val(call).tool_calls[1].tool
    /\ Len(errlog) = 1

----------------------------------------------------------------------------
(* Prompt ids *)

\* The ids of the elements of s are pairwise distinct
DistinctIds(s) == \A i, j \in DOMAIN s : i # j => s[i].id # s[j].id

\* C36: the ids of the index are pairwise distinct, and so are the ids of
\* the saved prompts and of the prompts generated and not yet saved, taken
\* together.
C36_PromptIdsDistinct ==
    /\ DistinctIds(index)
    /\ DistinctIds(index \o generated)

----------------------------------------------------------------------------
(* The examination report *)

RECURSIVE SumOver(_, _)
\* The sum of field f over the records of the sequence s
SumOver(s, f) == IF s = <<>> THEN 0 ELSE s[1][f] + SumOver(Tail(s), f)

\* C37: examine_base returns status error exactly when the base info fetch
\* or the table list fetch fails; when both succeed, whatever the number of
\* tables and the outcome of the per-table fetches, it returns status
\* success with total_tables the number of listed tables and total_fields
\* and total_records the sums over the table entries.
C37_ExamineReportsSuccess ==
    pc = "examined" =>
        LET base == Val(call).base
            r == Val(result)
        IN  IF base.info \in FetchFailures \/ base.list \in FetchFailures
            THEN r.status = "error"
            ELSE /\ r.status = "success"
                 /\ r.structure.total_tables = Len(base.tables)
                 /\ Len(r.structure.tables) = Len(base.tables)
                 /\ r.structure.total_fields =
                        SumOver(r.structure.tables, "fields")
                 /\ r.structure.total_records =
                        SumOver(r.structure.tables, "record_count")

====
